---- MODULE Spec2Model ----
(***************************************************************************)
(* Model of the lambda-go-template request pipeline:                       *)
(*   pkg/lambda/errors.go   typed errors, Handler.Wrap / WrapV2 and the    *)
(*                          middlewares (validation, logging, tracing,     *)
(*                          timeout, JSON parsing)                         *)
(*   pkg/http/response.go   ResponseBuilder                                *)
(*   src/users/main.go      CustomValidationMiddleware                     *)
(*                                                                         *)
(* Strings that the code formats or searches are sequences of word tokens, *)
(* so that "contains" is token membership.  A Go error value is a record   *)
(* whose `type` field is its dynamic type; an optional value (a wrapped    *)
(* cause) is a sequence of length 0 or 1.                                  *)
(***************************************************************************)
EXTENDS Integers, Sequences, FiniteSets, TLC

(***************************************************************************)
(* Bounds                                                                  *)
(***************************************************************************)
\* longest middleware list handed to Wrap / WrapV2
MaxMws == 2
\* longest request body, in tokens, given to the JSON parsing middleware
MaxBodyLen == 2
\* most configuration calls made on a response builder before its terminal call
MaxCalls == 3
\* deepest nesting of WithTimer calls (a timed function timing a part of its work)
MaxDepth == 2
\* WithTimer calls in one run, finished or in progress
MaxTimed == 3
\* invocations of the wrapped handler in flight at once
MaxInvocations == 2
\* tracer operations called in one run
MaxTracerCalls == 3
\* calls made on one response builder
MaxOps == 3

(***************************************************************************)
(* Small helpers                                                           *)
(***************************************************************************)
Contains(msg, w) == \E i \in 1..Len(msg) : msg[i] = w

\* Go map lookup: a missing key yields the zero value ""
Lookup(m, k) == IF k \in DOMAIN m THEN m[k] ELSE ""

Digit == <<"0", "1", "2", "3", "4", "5", "6", "7", "8", "9">>

RECURSIVE Itoa(_)
Itoa(n) == IF n < 10 THEN Digit[n + 1] ELSE Itoa(n \div 10) \o Digit[(n % 10) + 1]

\* fmt %v of a time.Duration given in whole seconds
DurationString(d) ==
    IF d = 0 THEN "0s"
    ELSE IF d < 60 THEN Itoa(d) \o "s"
    ELSE IF d < 3600 THEN Itoa(d \div 60) \o "m" \o Itoa(d % 60) \o "s"
    ELSE Itoa(d \div 3600) \o "h" \o Itoa((d % 3600) \div 60) \o "m" \o Itoa(d % 60) \o "s"

(***************************************************************************)
(* Typed errors (pkg/lambda/errors.go, first file)                         *)
(***************************************************************************)
NilError ==
    [type |-> "nil", Message |-> <<>>, Field |-> "", Value |-> "",
     Resource |-> "", ID |-> "", Reason |-> "", Operation |-> "",
     Code |-> "", Service |-> "", StatusCode |-> 0, Retryable |-> FALSE,
     Timeout |-> 0, Err |-> <<>>]

\* errors.New(text): an error that is none of the typed variants
UntypedError(text) == [NilError EXCEPT !.type = "untyped", !.Message = text]

ValidationErrorString(e) ==
    IF e.Field # ""
    THEN <<"validation", "error", "for", "field", e.Field, ":">> \o e.Message
    ELSE <<"validation", "error", ":">> \o e.Message
NotFoundErrorString(e) ==
    IF e.Resource # "" /\ e.ID # ""
    THEN <<e.Resource, "not", "found", ":">> \o e.Message \o <<"with", "ID", e.ID>>
    ELSE IF e.Resource # ""
    THEN <<e.Resource, "not", "found", ":">> \o e.Message
    ELSE <<"not", "found", ":">> \o e.Message
ConflictErrorString(e) ==
    IF e.Resource # ""
    THEN <<"conflict", "with", e.Resource, ":">> \o e.Message
    ELSE <<"conflict", ":">> \o e.Message
UnauthorizedErrorString(e) ==
    IF e.Reason # ""
    THEN <<"unauthorized", ":">> \o e.Message \o <<"(", e.Reason, ")">>
    ELSE <<"unauthorized", ":">> \o e.Message
ForbiddenErrorString(e) ==
    IF e.Resource # "" /\ e.Operation # ""
    THEN <<"forbidden", ":", "cannot", e.Operation, e.Resource, "-">> \o e.Message
    ELSE IF e.Resource # ""
    THEN <<"forbidden", ":", "access", "to", e.Resource, "denied", "-">> \o e.Message
    ELSE <<"forbidden", ":">> \o e.Message
TimeoutErrorString(e) ==
    IF e.Timeout > 0
    THEN <<"timeout", ":">> \o e.Message \o <<"(", "after", DurationString(e.Timeout), ")">>
    ELSE <<"timeout", ":">> \o e.Message
InternalErrorString(e) ==
    IF e.Operation # ""
    THEN <<"internal", "error", "during", e.Operation, ":">> \o e.Message
    ELSE <<"internal", "error", ":">> \o e.Message
BusinessLogicErrorString(e) ==
    IF e.Code # ""
    THEN <<"business", "logic", "error", "[", e.Code, "]", ":">> \o e.Message
    ELSE <<"business", "logic", "error", ":">> \o e.Message
ExternalServiceErrorString(e) ==
    IF e.Service # "" /\ e.StatusCode > 0
    THEN <<"external", "service", "error", "[", e.Service, ":", Itoa(e.StatusCode), "]", ":">> \o e.Message
    ELSE IF e.Service # ""
    THEN <<"external", "service", "error", "[", e.Service, "]", ":">> \o e.Message
    ELSE <<"external", "service", "error", ":">> \o e.Message

\* err.Error() by dynamic type
ErrorString(e) ==
    CASE e.type = "ValidationError"      -> ValidationErrorString(e)
      [] e.type = "NotFoundError"        -> NotFoundErrorString(e)
      [] e.type = "ConflictError"        -> ConflictErrorString(e)
      [] e.type = "UnauthorizedError"    -> UnauthorizedErrorString(e)
      [] e.type = "ForbiddenError"       -> ForbiddenErrorString(e)
      [] e.type = "TimeoutError"         -> TimeoutErrorString(e)
      [] e.type = "InternalError"        -> InternalErrorString(e)
      [] e.type = "BusinessLogicError"   -> BusinessLogicErrorString(e)
      [] e.type = "ExternalServiceError" -> ExternalServiceErrorString(e)
      [] OTHER                           -> e.Message

NewValidationError(message, field, value) ==
    [NilError EXCEPT !.type = "ValidationError", !.Message = message,
                     !.Field = field, !.Value = value]
NewValidationErrorWithCause(message, field, value, err) ==
    [NilError EXCEPT !.type = "ValidationError", !.Message = message,
                     !.Field = field, !.Value = value, !.Err = err]
NewNotFoundError(message) ==
    [NilError EXCEPT !.type = "NotFoundError", !.Message = message]
NewResourceNotFoundError(resource, id, message) ==
    [NilError EXCEPT !.type = "NotFoundError", !.Message = message,
                     !.Resource = resource, !.ID = id]
NewConflictError(message) ==
    [NilError EXCEPT !.type = "ConflictError", !.Message = message]
NewResourceConflictError(resource, message, err) ==
    [NilError EXCEPT !.type = "ConflictError", !.Message = message,
                     !.Resource = resource, !.Err = err]
NewUnauthorizedError(message) ==
    [NilError EXCEPT !.type = "UnauthorizedError", !.Message = message]
NewForbiddenError(message) ==
    [NilError EXCEPT !.type = "ForbiddenError", !.Message = message]
NewTimeoutError(message, timeout) ==
    [NilError EXCEPT !.type = "TimeoutError", !.Message = message, !.Timeout = timeout]
NewInternalError(message, err) ==
    [NilError EXCEPT !.type = "InternalError", !.Message = message, !.Err = err]
NewBusinessLogicError(message, code) ==
    [NilError EXCEPT !.type = "BusinessLogicError", !.Message = message, !.Code = code]
NewExternalServiceError(service, message, statusCode, retryable, err) ==
    [NilError EXCEPT !.type = "ExternalServiceError", !.Message = message,
                     !.Service = service, !.StatusCode = statusCode,
                     !.Retryable = retryable, !.Err = err]

(***************************************************************************)
(* Response builder (pkg/http/response.go)                                 *)
(***************************************************************************)
\* time.Now().UTC().Format(time.RFC3339): the clock is not modelled
Timestamp == "2006-01-02T15:04:05Z"

NewResponseBuilder == [requestID |-> "", path |-> "", headers |-> <<>>]
WithRequestID(rb, requestID) == [rb EXCEPT !.requestID = requestID]
WithPath(rb, path) == [rb EXCEPT !.path = path]
WithHeader(rb, key, value) == [rb EXCEPT !.headers = (key :> value) @@ rb.headers]
\* for key, value := range headers { rb.headers[key] = value }
WithHeaders(rb, headers) == [rb EXCEPT !.headers = headers @@ rb.headers]
WithCORS(rb) ==
    WithHeader(WithHeader(WithHeader(rb,
        "Access-Control-Allow-Origin", "*"),
        "Access-Control-Allow-Headers",
        "Content-Type,X-Amz-Date,Authorization,X-Api-Key,X-Amz-Security-Token"),
        "Access-Control-Allow-Methods", "OPTIONS,POST,GET,PUT,DELETE")
WithCacheControl(rb, maxAge) ==
    WithHeader(rb, "Cache-Control", "max-age=" \o Itoa(maxAge))

\* defaults written after the custom headers, so that they win
getDefaultHeadersDefaultsLast(rb) ==
    LET base == IF rb.requestID # ""
                THEN ("Content-Type" :> "application/json") @@ ("X-Request-ID" :> rb.requestID)
                ELSE ("Content-Type" :> "application/json")
    IN  base @@ rb.headers

getDefaultHeaders(rb) ==
    LET base == IF rb.requestID # ""
                THEN ("Content-Type" :> "application/json") @@ ("X-Request-ID" :> rb.requestID)
                ELSE ("Content-Type" :> "application/json")
    IN  rb.headers @@ base

\* an interface{} value is a sequence of length 0 (nil) or 1; a response body
\* is <<>> (the empty string) or <<obj>> (the marshalled JSON object).
\* a JSON object is a record-like function from field name to value; a field
\* tagged omitempty is left out when it holds the zero value
OmitEmpty(obj, keys) ==
    [k \in {f \in DOMAIN obj : ~(f \in keys /\ obj[f] = <<>>)} |-> obj[k]]

\* strings inside response bodies are token sequences; "" is <<>>
Str(s) == IF s = "" THEN <<>> ELSE <<s>>

\* a builder that wraps the data whatever the status
buildResponseAlwaysWrapped(rb, statusCode, data) ==
    [StatusCode |-> statusCode,
     Headers    |-> getDefaultHeaders(rb),
     Body       |-> IF data = <<>> THEN <<>>
                    ELSE <<OmitEmpty([data |-> data[1], requestId |-> Str(rb.requestID),
                                      timestamp |-> <<Timestamp>>], {"requestId"})>>]

buildResponse(rb, statusCode, data) ==
    [StatusCode |-> statusCode,
     Headers    |-> getDefaultHeaders(rb),
     Body       |-> IF data = <<>> THEN <<>>
                    ELSE IF statusCode >= 200 /\ statusCode < 300
                    THEN <<OmitEmpty([data |-> data[1], requestId |-> Str(rb.requestID),
                                      timestamp |-> <<Timestamp>>], {"requestId"})>>
                    ELSE <<data[1]>>]

buildErrorResponse(rb, statusCode, message, err) ==
    [StatusCode |-> statusCode,
     Headers    |-> getDefaultHeaders(rb),
     Body       |-> <<OmitEmpty([message   |-> message,
                                 error     |-> IF err # <<>> THEN ErrorString(err[1]) ELSE <<>>,
                                 requestId |-> Str(rb.requestID),
                                 timestamp |-> <<Timestamp>>,
                                 path      |-> Str(rb.path)],
                                {"error", "requestId", "path"})>>]

OK(rb, data) == buildResponse(rb, 200, data)
BadRequest(rb, message, err) == buildErrorResponse(rb, 400, message, err)
Unauthorized(rb, message) == buildErrorResponse(rb, 401, message, <<>>)
Forbidden(rb, message) == buildErrorResponse(rb, 403, message, <<>>)
NotFound(rb, message) == buildErrorResponse(rb, 404, message, <<>>)
Conflict(rb, message, err) == buildErrorResponse(rb, 409, message, err)
InternalServerError(rb, message, err) == buildErrorResponse(rb, 500, message, err)
Created(rb, data) == buildResponse(rb, 201, data)
NoContent(rb) == buildResponse(rb, 204, <<>>)
MethodNotAllowed(rb, message) == buildErrorResponse(rb, 405, message, <<>>)
UnprocessableEntity(rb, message, err) == buildErrorResponse(rb, 422, message, err)
TooManyRequests(rb, message) == buildErrorResponse(rb, 429, message, <<>>)
ServiceUnavailable(rb, message) == buildErrorResponse(rb, 503, message, <<>>)
Custom(rb, statusCode, data) == buildResponse(rb, statusCode, data)

(***************************************************************************)
(* encoding/json on request bodies.  A body is a sequence of lexical       *)
(* tokens; the grammar is the fragment  value ::= null | 1 | [ elements ]  *)
(* with comma-separated elements and insignificant white space.            *)
(***************************************************************************)
BodyTokens == {"null", "1", "[", "]", ",", " "}

\* what Unmarshal stores into an interface{}: nil for null
GoNil == [t |-> "nil"]
GoNumber == [t |-> "num"]
GoArray(elems) == [t |-> "arr", v |-> elems]

ParseFail == [ok |-> FALSE, val |-> GoNil, rest |-> <<>>]

RECURSIVE ParseValue(_), ParseElements(_, _)
ParseValue(toks) ==
    IF toks = <<>> THEN ParseFail
    ELSE CASE Head(toks) = "null" -> [ok |-> TRUE, val |-> GoNil, rest |-> Tail(toks)]
           [] Head(toks) = "1"    -> [ok |-> TRUE, val |-> GoNumber, rest |-> Tail(toks)]
           [] Head(toks) = "["    ->
                IF Tail(toks) # <<>> /\ Head(Tail(toks)) = "]"
                THEN [ok |-> TRUE, val |-> GoArray(<<>>), rest |-> Tail(Tail(toks))]
                ELSE ParseElements(Tail(toks), <<>>)
           [] OTHER               -> ParseFail
ParseElements(toks, acc) ==
    LET r == ParseValue(toks) IN
    IF ~r.ok \/ r.rest = <<>> THEN ParseFail
    ELSE IF Head(r.rest) = "]"
    THEN [ok |-> TRUE, val |-> GoArray(Append(acc, r.val)), rest |-> Tail(r.rest)]
    ELSE IF Head(r.rest) = ","
    THEN ParseElements(Tail(r.rest), Append(acc, r.val))
    ELSE ParseFail

\* json.Unmarshal([]byte(body), &parsedBody)
Unmarshal(body) ==
    LET toks == SelectSeq(body, LAMBDA t : t # " ")
        r    == ParseValue(toks)
    IN  IF r.ok /\ r.rest = <<>>
        THEN [err |-> <<>>, val |-> r.val]
        ELSE [err |-> <<UntypedError(<<"invalid", "character">>)>>, val |-> GoNil]

(***************************************************************************)
(* Middlewares as functions of the request (pkg/lambda/errors.go, second   *)
(* file).  Each yields the error it returns, or NilError when it delegates *)
(* to the next handler.                                                    *)
(***************************************************************************)
AllowedMethods == {"GET", "POST", "PUT", "DELETE", "PATCH", "OPTIONS"}

ContentTypeMessage ==
    <<"Content-Type", "must", "be", "application/json", "for", "requests", "with", "body">>

\* an allow-list with one method too many
ValidationMiddlewareAllowsHead(request) ==
    IF request.HTTPMethod \notin (AllowedMethods \cup {"HEAD"})
    THEN NewValidationError(<<"HTTP", "method", request.HTTPMethod, "is", "not", "allowed">>,
                            "httpMethod", request.HTTPMethod)
    ELSE IF request.HTTPMethod \in {"POST", "PUT", "PATCH"} /\ request.Body # <<>>
    THEN LET first       == Lookup(request.Headers, "Content-Type")
             contentType == IF first = "" THEN Lookup(request.Headers, "content-type") ELSE first
         IN  IF contentType # "application/json"
             THEN NewValidationError(ContentTypeMessage, "content-type", contentType)
             ELSE NilError
    ELSE NilError

\* a content-type check without the lower-case fallback
ValidationMiddlewareNoFallback(request) ==
    IF request.HTTPMethod \notin AllowedMethods
    THEN NewValidationError(<<"HTTP", "method", request.HTTPMethod, "is", "not", "allowed">>,
                            "httpMethod", request.HTTPMethod)
    ELSE IF request.HTTPMethod \in {"POST", "PUT", "PATCH"} /\ request.Body # <<>>
    THEN LET contentType == Lookup(request.Headers, "Content-Type")
         IN  IF contentType # "application/json"
             THEN NewValidationError(ContentTypeMessage, "content-type", contentType)
             ELSE NilError
    ELSE NilError

ValidationMiddleware(request) ==
    IF request.HTTPMethod \notin AllowedMethods
    THEN NewValidationError(<<"HTTP", "method", request.HTTPMethod, "is", "not", "allowed">>,
                            "httpMethod", request.HTTPMethod)
    ELSE IF request.HTTPMethod \in {"POST", "PUT", "PATCH"} /\ request.Body # <<>>
    THEN LET first       == Lookup(request.Headers, "Content-Type")
             contentType == IF first = "" THEN Lookup(request.Headers, "content-type") ELSE first
         IN  IF contentType # "application/json"
             THEN NewValidationError(ContentTypeMessage, "content-type", contentType)
             ELSE NilError
    ELSE NilError

ValidationMiddlewareV2(request) ==
    LET httpMethod == request.HTTPMethod IN
    IF httpMethod \notin AllowedMethods
    THEN NewValidationError(<<"HTTP", "method", httpMethod, "is", "not", "allowed">>,
                            "httpMethod", httpMethod)
    ELSE IF httpMethod \in {"POST", "PUT", "PATCH"} /\ request.Body # <<>>
    THEN LET first       == Lookup(request.Headers, "Content-Type")
             contentType == IF first = "" THEN Lookup(request.Headers, "content-type") ELSE first
         IN  IF contentType # "application/json"
             THEN NewValidationError(ContentTypeMessage, "content-type", contentType)
             ELSE NilError
    ELSE NilError

\* a custom validation that also lets PATCH through
CustomValidationMiddlewareAllowsPatch(request) ==
    IF request.HTTPMethod \notin {"GET", "PATCH"}
    THEN NewValidationError(<<"only", "GET", "method", "is", "allowed", "for", "users", "endpoint">>,
                            "httpMethod", request.HTTPMethod)
    ELSE NilError

\* src/users/main.go
CustomValidationMiddleware(request) ==
    IF request.HTTPMethod # "GET"
    THEN NewValidationError(<<"only", "GET", "method", "is", "allowed", "for", "users", "endpoint">>,
                            "httpMethod", request.HTTPMethod)
    ELSE NilError

\* the error JSONParsingMiddleware returns, and the context it hands on
JSONParsingMiddleware(request, ctx) ==
    IF request.Body # <<>>
    THEN LET u == Unmarshal(request.Body) IN
         IF u.err # <<>>
         THEN [err |-> NewValidationErrorWithCause(<<"Invalid", "JSON", "in", "request", "body">>,
                                                   "body", "", u.err),
               ctx |-> ctx]
         ELSE [err |-> NilError, ctx |-> [ctx EXCEPT !.parsed_body = <<u.val>>]]
    ELSE [err |-> NilError, ctx |-> ctx]

\* ctx.Value(key) is nil both for a missing key and for a stored nil
GetParsedBody(ctx) ==
    LET body == IF ctx.parsed_body = <<>> THEN GoNil ELSE ctx.parsed_body[1]
    IN  [body |-> body, found |-> body # GoNil]

\* a timeout branch that forgets the duration
TimeoutMiddlewareErrorNoDuration(config) ==
    NewTimeoutError(<<"Request", "timeout", "after", DurationString(config.ResponseTimeout)>>, 0)

\* the TimeoutError built in the timeout branch of the select
TimeoutMiddlewareError(config) ==
    NewTimeoutError(<<"Request", "timeout", "after", DurationString(config.ResponseTimeout)>>,
                    config.ResponseTimeout)

\* a switch that sends one more variant to the wrong builder call
WrapErrorResponseNotFoundAsBadRequest(rb, err) ==
    CASE err.type = "ValidationError"   -> BadRequest(rb, err.Message, err.Err)
      [] err.type = "NotFoundError"     -> BadRequest(rb, err.Message, <<>>)
      [] err.type = "ConflictError"     -> Conflict(rb, err.Message, err.Err)
      [] err.type = "UnauthorizedError" -> Unauthorized(rb, err.Message)
      [] err.type = "ForbiddenError"    -> Forbidden(rb, err.Message)
      [] OTHER -> InternalServerError(rb, <<"Internal", "server", "error">>, <<err>>)

\* the switch on the error's dynamic type in Wrap
WrapErrorResponse(rb, err) ==
    CASE err.type = "ValidationError"   -> BadRequest(rb, err.Message, err.Err)
      [] err.type = "NotFoundError"     -> NotFound(rb, err.Message)
      [] err.type = "ConflictError"     -> Conflict(rb, err.Message, err.Err)
      [] err.type = "UnauthorizedError" -> Unauthorized(rb, err.Message)
      [] err.type = "ForbiddenError"    -> Forbidden(rb, err.Message)
      [] OTHER -> InternalServerError(rb, <<"Internal", "server", "error">>, <<err>>)

\* the same switch in WrapV2
WrapV2ErrorResponse(rb, err) ==
    CASE err.type = "ValidationError"   -> BadRequest(rb, err.Message, err.Err)
      [] err.type = "NotFoundError"     -> NotFound(rb, err.Message)
      [] err.type = "ConflictError"     -> Conflict(rb, err.Message, err.Err)
      [] err.type = "UnauthorizedError" -> Unauthorized(rb, err.Message)
      [] err.type = "ForbiddenError"    -> Forbidden(rb, err.Message)
      [] OTHER -> InternalServerError(rb, <<"Internal", "server", "error">>, <<err>>)

\* a wrapper that hands the chain's error on to the platform
InvocationErrorPropagated(err) == err

\* the second value of `return response, nil` on both paths of Wrap and WrapV2
InvocationError(err) == NilError

\* Wrap: wrapped := handlerFunc; for i := len-1 .. 0 { wrapped = middlewares[i](wrapped) }.
\* A composed handler is the sequence of the middlewares' list positions from
\* the outermost call inwards, ending in 0 for the business handler.
\* a composition loop that runs forwards, leaving the last-listed outermost
RECURSIVE ApplyMiddlewaresForward(_, _)
ApplyMiddlewaresForward(i, wrappedSoFar) ==
    IF i < 1 THEN wrappedSoFar
    ELSE ApplyMiddlewaresForward(i - 1, SubSeq(wrappedSoFar, 1, Len(wrappedSoFar) - 1) \o <<i, 0>>)

RECURSIVE ApplyMiddlewares(_, _)
ApplyMiddlewares(i, wrappedSoFar) ==
    IF i < 1 THEN wrappedSoFar ELSE ApplyMiddlewares(i - 1, <<i>> \o wrappedSoFar)

Wrap(mwList) == ApplyMiddlewares(Len(mwList), <<0>>)
WrapV2(mwList) == ApplyMiddlewares(Len(mwList), <<0>>)

(***************************************************************************)
(* Inputs                                                                  *)
(***************************************************************************)
\* the middlewares Handler offers to Wrap, and those it offers to WrapV2
HandlerMiddlewares == {"validation", "logging", "tracing", "timeout", "json"}
HandlerMiddlewaresV2 == {"validation", "logging", "tracing", "timeout"}

\* what a list may hold: the users service adds its own middleware to WrapV2
KindsV1 == HandlerMiddlewares
KindsV2 == HandlerMiddlewaresV2 \cup {"custom"}

\* middleware lists: each middleware at most once, at most MaxMws of them
Lists(kinds) ==
    {l \in UNION {[1..n -> kinds] : n \in 0..MaxMws} :
        \A i, j \in DOMAIN l : i # j => l[i] # l[j]}

Methods == AllowedMethods \cup {"HEAD", "get"}
HeaderMaps ==
    {h \in UNION {[ks -> {"", "application/json", "text/plain"}] :
                    ks \in SUBSET {"Content-Type", "content-type", "CONTENT-TYPE"}} :
        \A k \in DOMAIN h : h[k] = "" => k = "Content-Type"}
Bodies == UNION {[1..n -> BodyTokens] : n \in 0..MaxBodyLen}

JSONHeaders == ("Content-Type" :> "application/json")
Req(m, h, b) == [HTTPMethod |-> m, Path |-> "/hello", Headers |-> h, Body |-> b,
                PathParameters |-> <<>>]
Cfg(rt, tracing) == [ServiceName |-> "lambda-service", ResponseTimeout |-> rt,
                     CacheMaxAge |-> 300, EnableTracing |-> tracing]
ResponseTimeouts == {5, 29, 90}
DefaultConfig == Cfg(29, TRUE)

\* handlerFunc "any": a business handler that may return anything;
\* "users": the handler CreateHandler of the users service builds
Input(v, l, r, c, lcx) ==
    [version |-> v, middlewares |-> l, request |-> r, config |-> c, lc |-> lcx,
     handlerFunc |-> "any"]

\* every middleware list, on three plain requests
ChainInputs ==
    {Input(v, l, r, DefaultConfig, <<"req-1">>) :
        v \in {"v1"}, l \in Lists(KindsV1),
        r \in {Req("GET", <<>>, <<>>), Req("POST", JSONHeaders, <<"1">>), Req("HEAD", <<>>, <<>>)}}
    \cup
    {Input(v, l, r, DefaultConfig, <<"req-1">>) :
        v \in {"v2"}, l \in Lists(KindsV2),
        r \in {Req("GET", <<>>, <<>>), Req("POST", JSONHeaders, <<"1">>), Req("HEAD", <<>>, <<>>)}}
\* every method, header map and body emptiness, through the validation middleware
ValidationInputs ==
    {Input(v, <<"validation">>, Req(m, h, b), DefaultConfig, <<"req-1">>) :
        v \in {"v1", "v2"}, m \in Methods, h \in HeaderMaps, b \in {<<>>, <<"1">>}}
\* every body, through the JSON parsing middleware
JSONInputs ==
    {Input("v1", l, Req("POST", JSONHeaders, b), DefaultConfig, <<"req-1">>) :
        l \in {<<"json">>, <<"validation", "json">>}, b \in Bodies}
\* every configuration and invocation context, through the timeout middleware
ConfigInputs ==
    {Input(v, <<"timeout">>, Req("GET", <<>>, <<>>), Cfg(rt, tr), lcx) :
        v \in {"v1", "v2"}, rt \in ResponseTimeouts, tr \in BOOLEAN, lcx \in {<<>>, <<"req-1">>}}


\* the users service as main wires it, on every method and user ID
UsersMiddlewares == <<"custom", "validation", "logging", "tracing", "timeout">>
UserIDs == {"1", "2", "3", "999", ""}
UsersRequests ==
    {[HTTPMethod |-> m, Path |-> "/users", Headers |-> h, Body |-> b, PathParameters |-> <<>>] :
        m \in Methods, h \in {<<>>, JSONHeaders}, b \in {<<>>, <<"1">>}}
    \cup
    {[HTTPMethod |-> m, Path |-> "/users/" \o id, Headers |-> <<>>, Body |-> <<>>,
      PathParameters |-> ("id" :> id)] : m \in {"GET", "PATCH"}, id \in UserIDs}
UsersInputs ==
    {[version |-> "v2", middlewares |-> UsersMiddlewares, request |-> r,
      config |-> DefaultConfig, lc |-> <<"req-1">>, handlerFunc |-> "users"] :
        r \in UsersRequests}

Inputs == ChainInputs \cup ValidationInputs \cup JSONInputs \cup ConfigInputs \cup UsersInputs

\* what a business handler may return: (data, nil) or (nil, err)
HandlerData == [message |-> <<"success">>]
Cause == UntypedError(<<"connection", "refused">>)
HandlerErrors ==
    {NewValidationError(<<"name", "is", "required">>, "name", ""),
     NewValidationErrorWithCause(<<"name", "is", "required">>, "name", "", <<Cause>>),
     NewNotFoundError(<<"user", "not", "found">>),
     NewConflictError(<<"already", "exists">>),
     NewResourceConflictError("user", <<"already", "exists">>, <<Cause>>),
     NewUnauthorizedError(<<"missing", "token">>),
     NewForbiddenError(<<"not", "allowed">>),
     NewTimeoutError(<<"database", "query">>, 7),
     NewInternalError(<<"query", "failed">>, <<>>),
     NewInternalError(<<"query", "failed">>, <<NewNotFoundError(<<"user", "not", "found">>)>>),
     NewBusinessLogicError(<<"insufficient", "funds">>, "E42"),
     UntypedError(<<"boom">>)}
    \cup {NewExternalServiceError("billing", <<"upstream", "failed">>, sc, rt, <<>>) :
            sc \in {429, 503}, rt \in BOOLEAN}
HandlerOutcomes ==
    {[data |-> <<HandlerData>>, err |-> NilError]}
    \cup {[data |-> <<>>, err |-> e] : e \in HandlerErrors}

(***************************************************************************)
(* The users service (src/users/main.go)                                   *)
(***************************************************************************)
\* NewMockUserRepository: the IDs of its sample users, in order
MockUsers == <<"1", "2", "3">>

\* a repository that reports the miss without the ID
GetUserByIDNoID(id) ==
    IF \E i \in 1..Len(MockUsers) : MockUsers[i] = id
    THEN [user |-> <<id>>, err |-> NilError]
    ELSE [user |-> <<>>, err |-> NewNotFoundError(<<"user", "not", "found">>)]

GetUserByID(id) ==
    IF \E i \in 1..Len(MockUsers) : MockUsers[i] = id
    THEN [user |-> <<id>>, err |-> NilError]
    ELSE [user |-> <<>>, err |-> NewResourceNotFoundError("user", id, <<"user", "not", "found">>)]

UsersResponse(users, requestID) ==
    [users |-> users, count |-> Len(users), requestId |-> requestID, version |-> "1.0.0"]

ValidateUsersRequest(request) ==
    IF request.HTTPMethod # "GET"
    THEN NewValidationError(<<"only", "GET", "method", "is", "allowed", "for", "users", "endpoint">>,
                            "httpMethod", request.HTTPMethod)
    ELSE IF "id" \in DOMAIN request.PathParameters /\ request.PathParameters["id"] = ""
    THEN NewValidationError(<<"user", "ID", "cannot", "be", "empty">>, "id", "")
    ELSE NilError

processSingleUserRequest(userID, requestID) ==
    IF userID = ""
    THEN [data |-> <<>>, err |-> NewValidationError(<<"user", "ID", "cannot", "be", "empty">>, "id", userID)]
    ELSE LET r == GetUserByID(userID) IN
         IF r.err # NilError
         THEN [data |-> <<>>, err |-> r.err]
         ELSE [data |-> <<UsersResponse(r.user, requestID)>>, err |-> NilError]

ProcessUsersRequest(request, requestID) ==
    LET userID == Lookup(request.PathParameters, "id") IN
    IF userID # ""
    THEN processSingleUserRequest(userID, requestID)
    ELSE [data |-> <<UsersResponse(MockUsers, requestID)>>, err |-> NilError]

\* the function CreateHandler returns
UsersHandler(request, requestID) ==
    IF ValidateUsersRequest(request) # NilError
    THEN [data |-> <<>>, err |-> ValidateUsersRequest(request)]
    ELSE ProcessUsersRequest(request, requestID)

(***************************************************************************)
(* State                                                                   *)
(***************************************************************************)
VARIABLES
    version,        \* "v1": Wrap and the v1 middlewares, "v2": WrapV2 and the V2 ones
    middlewares,    \* the list handed to Wrap
    wrapped,        \* the composed handler Wrap built
    request, lc, config,
    handlerFunc,    \* which business handler Wrap was given
    parentDone,     \* the caller's context is cancelled or past its deadline
    pc, depth, ret, \* per goroutine: position, nesting depth in `wrapped`, value being returned
    ctx,            \* values of the context handed down the chain
    timeoutCtx,     \* the context.WithTimeout of the timeout middleware
    resultChan,     \* its buffered channel (capacity 1)
    events,         \* history: middleware and handler entries and exits
    delegated,      \* history: list positions of the middlewares that called next
    seen,           \* history: what GetParsedBody gave the business handler
    rejected,       \* history: the errors middlewares returned without calling next
    atDeadline,     \* history: where the goroutine was when the deadline elapsed
    selectSaw,      \* history: which cases were ready when the select chose, and its choice
    timeoutRet,     \* history: what the timeout middleware returned
    responseBuilder, result, response, invokeErr,
    logs, segment, annotations

\* a response builder used on its own
VARIABLES
    calls,          \* history: the configuration calls made on the builder, in order
    terminal        \* history: the terminal call that produced `response`

builderVars == <<calls, terminal>>

\* the configuration loader
VARIABLES
    environ,        \* the process environment: variable name -> <<>> (unset) or <<text>>
    loaded          \* <<>> before Load, then what Load / MustLoad gave

configVars == <<environ, loaded>>

\* the tracer's WithTimer
VARIABLES
    tracerEnabled,  \* t.config.Enabled
    ctxSegment,     \* the context given to the outermost call carries a segment
    stack,          \* the WithTimer calls in progress, outermost first
    segs,           \* the subsegments opened so far
    finished        \* history: the calls that have finished, in order

timerVars == <<tracerEnabled, ctxSegment, stack, segs, finished>>

\* concurrent invocations of one wrapped handler
VARIABLES
    invocation,     \* per invocation: its arguments, position and results
    builders,       \* the response builders allocated, by cell
    segments,       \* the segments started, by cell: their annotations
    channels,       \* the result channels made, by cell
    sink            \* the output of the one logger all invocations share

concVars == <<invocation, builders, segments, channels, sink>>

\* the tracer's operations called one by one
VARIABLES
    apiEnabled,     \* t.config.Enabled of the tracer in use
    held,           \* the contexts the caller holds: <<>> or <<segment>>
    handles,        \* the handles the caller was given: 0 is nil
    xsegs,          \* the segments that exist, by handle
    lastCall,       \* history: the last operation called and what it gave
    ncalls          \* operations called so far

tracerVars == <<apiEnabled, held, handles, xsegs, lastCall, ncalls>>

\* the error classifiers
VARIABLES
    errIn,          \* the error (or nil) handed to a classifier
    verdict         \* <<>>, then what the last classifier called gave

errVars == <<errIn, verdict>>

\* a response builder used again after a terminal call
VARIABLES
    heap,           \* the header maps allocated, by address
    builder,        \* the builder: requestID, path and the address of its header map
    produced,       \* the responses produced so far, each as returned
    nops            \* builder calls made so far

reuseVars == <<heap, builder, produced, nops>>

extraVars == <<tracerVars, errVars, reuseVars>>

\* the state of the components that a run of the pipeline does not touch
auxVars == <<builderVars, configVars, timerVars, concVars, extraVars>>

vars == <<version, middlewares, wrapped, request, lc, config, handlerFunc, parentDone, pc, depth, ret,
          ctx, timeoutCtx, resultChan, events, delegated, rejected, seen, atDeadline,
          selectSaw, timeoutRet, responseBuilder, result, response, invokeErr, logs, segment, annotations,
          auxVars>>

inputVars == <<version, middlewares, wrapped, request, lc, config, handlerFunc>>

Goroutines == {"main", "task"}

\* no standalone builder in use
BuilderIdle == calls = <<>> /\ terminal = <<>>

\* no variable set, Load not called
ConfigIdle == environ = <<>> /\ loaded = <<>>

\* WithTimer not called
TimerIdle ==
    /\ tracerEnabled = TRUE
    /\ ctxSegment = FALSE
    /\ stack = <<>>
    /\ segs = <<>>
    /\ finished = <<>>

\* the handler not invoked concurrently
ConcIdle ==
    /\ invocation = <<>>
    /\ builders = <<>>
    /\ segments = <<>>
    /\ channels = <<>>
    /\ sink = <<>>

\* no tracer operation called
TracerIdle ==
    /\ apiEnabled = TRUE
    /\ held = {}
    /\ handles = {}
    /\ xsegs = <<>>
    /\ lastCall = <<>>
    /\ ncalls = 0

\* no classifier called
ErrIdle == errIn = <<>> /\ verdict = <<>>

\* no builder reused
ReuseIdle == heap = <<>> /\ builder = <<>> /\ produced = <<>> /\ nops = 0

ExtraIdle == TracerIdle /\ ErrIdle /\ ReuseIdle

AuxIdle == BuilderIdle /\ ConfigIdle /\ TimerIdle /\ ConcIdle /\ ExtraIdle

\* the pipeline before an invocation of the handler Wrap / WrapV2 returned,
\* for input `in`; `start` is the position of the main goroutine
PipelineInit(in, start) ==
    /\ version = in.version
    /\ middlewares = in.middlewares
    /\ wrapped = IF in.version = "v1" THEN Wrap(in.middlewares) ELSE WrapV2(in.middlewares)
    /\ request = in.request
    /\ lc = in.lc
    /\ config = in.config
    /\ handlerFunc = in.handlerFunc
    /\ parentDone = FALSE
    /\ pc = [g \in Goroutines |-> IF g = "main" THEN start ELSE "none"]
    /\ depth = [g \in Goroutines |-> 0]
    /\ ret = [g \in Goroutines |-> <<>>]
    /\ ctx = [parsed_body |-> <<>>]
    /\ timeoutCtx = [created |-> FALSE, expired |-> FALSE, cancelled |-> FALSE]
    /\ resultChan = <<>>
    /\ events = <<>>
    /\ delegated = {}
    /\ seen = <<>>
    /\ rejected = {}
    /\ atDeadline = "pending"
    /\ selectSaw = <<>>
    /\ timeoutRet = <<>>
    /\ responseBuilder = NewResponseBuilder
    /\ result = <<>>
    /\ response = <<>>
    /\ invokeErr = <<>>
    /\ logs = <<>>
    /\ segment = "none"
    /\ annotations = <<>>

Init ==
    /\ \E in \in Inputs : PipelineInit(in, "start")
    /\ AuxIdle

(***************************************************************************)
(* Observability (tracer and logger): no-ops when tracing is disabled or   *)
(* no segment is open                                                      *)
(***************************************************************************)
AddAnnotation(ann, key, value) ==
    IF config.EnableTracing /\ segment = "open" THEN (key :> value) @@ ann ELSE ann

\* a log call that loses the status it was given
LogEntryStatusLost(msg, status) == [msg |-> msg, status |-> 0]

LogEntry(msg, status) == [msg |-> msg, status |-> status]

(***************************************************************************)
(* Steps of one invocation                                                 *)
(***************************************************************************)
\* list position of the middleware goroutine g is in (0: the business handler)
Pos(g) == wrapped[depth[g]]
Kind(g) == IF Pos(g) = 0 THEN "handler" ELSE middlewares[Pos(g)]
AtMiddleware(g, kind) ==
    /\ pc[g] = "call"
    /\ Kind(g) = kind

Event(e, m) == [e |-> e, m |-> m]

\* a middleware that runs the rest of the chain and rejects afterwards
RejectAfterNext(g, err) ==
    /\ events' = events \o <<Event("enter", Pos(g)), Event("start", 0), Event("return", 0),
                              Event("exit", Pos(g))>>
    /\ ret' = [ret EXCEPT ![g] = [data |-> <<>>, err |-> err]]
    /\ pc' = [pc EXCEPT ![g] = "ret"]
    /\ depth' = [depth EXCEPT ![g] = depth[g] - 1]
    /\ rejected' = rejected \cup {[m |-> Pos(g), err |-> err]}
    /\ UNCHANGED delegated

\* the middleware at g returns (nil, err) without calling next
Reject(g, err) ==
    /\ events' = events \o <<Event("enter", Pos(g)), Event("exit", Pos(g))>>
    /\ ret' = [ret EXCEPT ![g] = [data |-> <<>>, err |-> err]]
    /\ pc' = [pc EXCEPT ![g] = "ret"]
    /\ depth' = [depth EXCEPT ![g] = depth[g] - 1]
    /\ rejected' = rejected \cup {[m |-> Pos(g), err |-> err]}
    /\ UNCHANGED delegated

\* the middleware at g calls next(ctx, request)
Delegate(g) ==
    /\ events' = Append(events, Event("enter", Pos(g)))
    /\ delegated' = delegated \cup {Pos(g)}
    /\ depth' = [depth EXCEPT ![g] = depth[g] + 1]
    /\ UNCHANGED <<ret, pc, rejected>>

\* the function Wrap / WrapV2 returned, up to the call of the wrapped chain
Invoke ==
    /\ pc["main"] = "start"
    /\ LET requestID == IF lc = <<>> THEN "" ELSE lc[1]
           started   == IF config.EnableTracing THEN "open" ELSE "none"
           segAnn    == IF lc = <<>>
                        THEN ("service" :> config.ServiceName)
                        ELSE ("service" :> config.ServiceName) @@ ("aws_request_id" :> lc[1])
       IN  /\ segment' = started
           /\ annotations' =
                IF config.EnableTracing
                THEN ("http_method" :> request.HTTPMethod) @@ ("http_path" :> request.Path)
                        @@ ("request_id" :> requestID) @@ segAnn
                ELSE annotations
           /\ logs' = IF lc # <<>>
                      THEN Append(logs, LogEntry("Lambda function invocation started", 0))
                      ELSE logs
           /\ responseBuilder' =
                WithCacheControl(WithCORS(WithPath(WithRequestID(NewResponseBuilder, requestID),
                                                   request.Path)),
                                 config.CacheMaxAge)
    /\ pc' = [pc EXCEPT !["main"] = "call"]
    /\ depth' = [depth EXCEPT !["main"] = 1]
    /\ UNCHANGED <<inputVars, auxVars, parentDone, ret, ctx, timeoutCtx, resultChan, events, delegated, rejected,
                   seen, atDeadline, selectSaw, timeoutRet, result, response, invokeErr>>

ValidationStep(g) ==
    /\ AtMiddleware(g, "validation")
    /\ LET err == IF version = "v1" THEN ValidationMiddleware(request)
                                    ELSE ValidationMiddlewareV2(request)
       IN  IF err # NilError THEN Reject(g, err) ELSE Delegate(g)
    /\ UNCHANGED <<inputVars, auxVars, parentDone, ctx, timeoutCtx, resultChan, seen, atDeadline, selectSaw, timeoutRet,
                   responseBuilder, result, response, invokeErr, logs, segment, annotations>>

CustomValidationStep(g) ==
    /\ AtMiddleware(g, "custom")
    /\ LET err == CustomValidationMiddleware(request)
       IN  IF err # NilError THEN Reject(g, err) ELSE Delegate(g)
    /\ UNCHANGED <<inputVars, auxVars, parentDone, ctx, timeoutCtx, resultChan, seen, atDeadline, selectSaw, timeoutRet,
                   responseBuilder, result, response, invokeErr, logs, segment, annotations>>

LoggingStep(g) ==
    /\ AtMiddleware(g, "logging")
    /\ logs' = Append(logs, LogEntry("Processing request", 0))
    /\ Delegate(g)
    /\ UNCHANGED <<inputVars, auxVars, parentDone, ctx, timeoutCtx, resultChan, seen, atDeadline, selectSaw, timeoutRet,
                   responseBuilder, result, response, invokeErr, segment, annotations>>

TracingStep(g) ==
    /\ AtMiddleware(g, "tracing")
    /\ annotations' = AddAnnotation(annotations, "metadata.request", TRUE)
    /\ Delegate(g)
    /\ UNCHANGED <<inputVars, auxVars, parentDone, ctx, timeoutCtx, resultChan, seen, atDeadline, selectSaw, timeoutRet,
                   responseBuilder, result, response, invokeErr, logs, segment>>

JSONParsingStep(g) ==
    /\ AtMiddleware(g, "json")
    /\ LET r == JSONParsingMiddleware(request, ctx)
       IN  IF r.err # NilError
           THEN Reject(g, r.err) /\ UNCHANGED ctx
           ELSE Delegate(g) /\ ctx' = r.ctx
    /\ UNCHANGED <<inputVars, auxVars, parentDone, timeoutCtx, resultChan, seen, atDeadline, selectSaw, timeoutRet,
                   responseBuilder, result, response, invokeErr, logs, segment, annotations>>

\* TimeoutMiddleware up to its select: derive the context, make the channel,
\* start the goroutine
TimeoutEnter ==
    /\ AtMiddleware("main", "timeout")
    /\ timeoutCtx' = [created |-> TRUE, expired |-> FALSE, cancelled |-> FALSE]
    /\ resultChan' = <<>>
    /\ events' = Append(events, Event("enter", Pos("main")))
    /\ pc' = [pc EXCEPT !["main"] = "select", !["task"] = "spawned"]
    /\ depth' = [depth EXCEPT !["task"] = depth["main"] + 1]
    /\ UNCHANGED <<inputVars, auxVars, parentDone, ret, ctx, delegated, rejected, seen, atDeadline, selectSaw, timeoutRet,
                   responseBuilder, result, response, invokeErr, logs, segment, annotations>>

\* the goroutine is scheduled and calls next(timeoutCtx, request)
TaskStart ==
    /\ pc["task"] = "spawned"
    /\ pc' = [pc EXCEPT !["task"] = "call"]
    /\ delegated' = delegated \cup {wrapped[depth["task"] - 1]}
    /\ UNCHANGED <<inputVars, auxVars, parentDone, depth, ret, ctx, timeoutCtx, resultChan, events, seen,
                   rejected,
                   atDeadline, selectSaw, timeoutRet, responseBuilder, result, response, invokeErr, logs, segment,
                   annotations>>

HandlerStart(g) ==
    /\ AtMiddleware(g, "handler")
    /\ events' = Append(events, Event("start", 0))
    /\ seen' = <<GetParsedBody(ctx)>>
    /\ pc' = [pc EXCEPT ![g] = "handler"]
    /\ UNCHANGED <<inputVars, auxVars, parentDone, depth, ret, ctx, timeoutCtx, resultChan, delegated, rejected,
                   atDeadline, selectSaw, timeoutRet, responseBuilder, result, response, invokeErr, logs, segment,
                   annotations>>

HandlerReturn(g) ==
    /\ pc[g] = "handler"
    /\ IF handlerFunc = "users"
       THEN ret' = [ret EXCEPT ![g] = UsersHandler(request, IF lc = <<>> THEN "" ELSE lc[1])]
       ELSE \E out \in HandlerOutcomes : ret' = [ret EXCEPT ![g] = out]
    /\ events' = Append(events, Event("return", 0))
    /\ pc' = [pc EXCEPT ![g] = "ret"]
    /\ depth' = [depth EXCEPT ![g] = depth[g] - 1]
    /\ UNCHANGED <<inputVars, auxVars, parentDone, ctx, timeoutCtx, resultChan, delegated, rejected, seen,
                   atDeadline, selectSaw, timeoutRet, responseBuilder, result, response, invokeErr, logs, segment,
                   annotations>>

\* `return next(ctx, request)` of a middleware: the value passes through
MiddlewareReturn(g) ==
    /\ pc[g] = "ret"
    /\ depth[g] >= 1
    /\ Kind(g) # "timeout"
    /\ events' = Append(events, Event("exit", Pos(g)))
    /\ depth' = [depth EXCEPT ![g] = depth[g] - 1]
    /\ UNCHANGED <<inputVars, auxVars, parentDone, pc, ret, ctx, timeoutCtx, resultChan, delegated, rejected, seen,
                   atDeadline, selectSaw, timeoutRet, responseBuilder, result, response, invokeErr, logs, segment,
                   annotations>>

\* the goroutine sends what next returned; the buffer has room, it never blocks
TaskSend ==
    /\ pc["task"] = "ret"
    /\ Kind("task") = "timeout"
    /\ Len(resultChan) < 1
    /\ resultChan' = Append(resultChan, ret["task"])
    /\ pc' = [pc EXCEPT !["task"] = "exited"]
    /\ UNCHANGED <<inputVars, auxVars, parentDone, depth, ret, ctx, timeoutCtx, events, delegated, rejected, seen,
                   atDeadline, selectSaw, timeoutRet, responseBuilder, result, response, invokeErr, logs, segment,
                   annotations>>

\* next(timeoutCtx, request) has returned into the goroutine
NextReturned ==
    \/ pc["task"] = "exited"
    \/ pc["task"] = "ret" /\ Kind("task") = "timeout"

\* timeoutCtx.Done() is closed
Done == timeoutCtx.created /\ (timeoutCtx.expired \/ timeoutCtx.cancelled \/ parentDone)

\* select, case result := <-resultChan
SelectResult ==
    /\ pc["main"] = "select"
    /\ resultChan # <<>>
    /\ ret' = [ret EXCEPT !["main"] = Head(resultChan)]
    /\ timeoutRet' = <<Head(resultChan)>>
    /\ selectSaw' = <<[result |-> TRUE, done |-> Done, chose |-> "result"]>>
    /\ resultChan' = Tail(resultChan)
    /\ events' = Append(events, Event("exit", Pos("main")))
    /\ timeoutCtx' = [timeoutCtx EXCEPT !.cancelled = TRUE]
    /\ pc' = [pc EXCEPT !["main"] = "ret"]
    /\ depth' = [depth EXCEPT !["main"] = depth["main"] - 1]
    /\ UNCHANGED <<inputVars, auxVars, parentDone, ctx, delegated, rejected, seen, atDeadline,
                   responseBuilder, result, response, invokeErr, logs, segment, annotations>>

\* select, case <-timeoutCtx.Done()
SelectTimeout ==
    /\ pc["main"] = "select"
    /\ Done
    /\ annotations' = AddAnnotation(annotations, "timeout", TRUE)
    /\ ret' = [ret EXCEPT !["main"] = [data |-> <<>>, err |-> TimeoutMiddlewareError(config)]]
    /\ timeoutRet' = <<[data |-> <<>>, err |-> TimeoutMiddlewareError(config)]>>
    /\ selectSaw' = <<[result |-> resultChan # <<>>, done |-> TRUE, chose |-> "done"]>>
    /\ events' = Append(events, Event("exit", Pos("main")))
    /\ timeoutCtx' = [timeoutCtx EXCEPT !.cancelled = TRUE]
    /\ pc' = [pc EXCEPT !["main"] = "ret"]
    /\ depth' = [depth EXCEPT !["main"] = depth["main"] - 1]
    /\ UNCHANGED <<inputVars, auxVars, parentDone, ctx, resultChan, delegated, rejected, seen, atDeadline,
                   responseBuilder, result, response, invokeErr, logs, segment>>

\* the ResponseTimeout timer of timeoutCtx fires
DeadlineElapse ==
    /\ timeoutCtx.created
    /\ ~Done
    /\ timeoutCtx' = [timeoutCtx EXCEPT !.expired = TRUE]
    /\ atDeadline' = IF NextReturned THEN "returned" ELSE pc["task"]
    /\ UNCHANGED <<inputVars, auxVars, parentDone, pc, depth, ret, ctx, resultChan, events, delegated,
                   rejected, seen, selectSaw, timeoutRet, responseBuilder, result, response, invokeErr, logs, segment, annotations>>

\* the context the platform handed to the invocation is cancelled or expires
ParentCancel ==
    /\ ~parentDone
    /\ pc["main"] # "done"
    /\ parentDone' = TRUE
    /\ UNCHANGED <<inputVars, auxVars, pc, depth, ret, ctx, timeoutCtx, resultChan, events, delegated, rejected,
                   seen, atDeadline, selectSaw, timeoutRet, responseBuilder, result, response, invokeErr, logs, segment,
                   annotations>>

\* a close that is skipped when the chain returned an error
WrapCloseOnSuccessOnly(seg, err) ==
    IF seg = "open" /\ err = NilError THEN "closed" ELSE seg

\* `defer h.tracer.Close(seg, nil)`: runs as the function returns, on every path
WrapClose(seg, err) == IF seg = "open" THEN "closed" ELSE seg

\* the function Wrap / WrapV2 returned, from the return of the wrapped chain
WrapReturn ==
    /\ pc["main"] = "ret"
    /\ depth["main"] = 0
    /\ LET data == ret["main"].data
           err  == ret["main"].err
           resp == IF err # NilError
                   THEN IF version = "v1" THEN WrapErrorResponse(responseBuilder, err)
                                          ELSE WrapV2ErrorResponse(responseBuilder, err)
                   ELSE OK(responseBuilder, data)
       IN  /\ result' = <<ret["main"]>>
           /\ response' = <<resp>>
           /\ logs' =
                IF err # NilError
                THEN logs \o <<LogEntry("Handler execution failed", 0),
                               LogEntry("HTTP request completed", resp.StatusCode)>>
                ELSE logs \o <<LogEntry("HTTP request completed", resp.StatusCode),
                               LogEntry("Lambda function invocation completed", 0)>>
           /\ annotations' =
                IF err # NilError
                THEN AddAnnotation(AddAnnotation(annotations, "error", TRUE),
                                   "http_status", resp.StatusCode)
                ELSE AddAnnotation(AddAnnotation(AddAnnotation(annotations,
                                   "http_status", resp.StatusCode), "success", TRUE),
                                   "metadata.response", TRUE)
    /\ invokeErr' = <<InvocationError(ret["main"].err)>>
    /\ segment' = WrapClose(segment, ret["main"].err)
    /\ pc' = [pc EXCEPT !["main"] = "done"]
    /\ UNCHANGED <<inputVars, auxVars, parentDone, depth, ret, ctx, timeoutCtx, resultChan, events,
                   delegated, rejected, seen, atDeadline, selectSaw, timeoutRet, responseBuilder>>

Next ==
    \/ Invoke
    \/ \E g \in Goroutines : ValidationStep(g)
    \/ \E g \in Goroutines : CustomValidationStep(g)
    \/ \E g \in Goroutines : LoggingStep(g)
    \/ \E g \in Goroutines : TracingStep(g)
    \/ \E g \in Goroutines : JSONParsingStep(g)
    \/ TimeoutEnter
    \/ TaskStart
    \/ \E g \in Goroutines : HandlerStart(g)
    \/ \E g \in Goroutines : HandlerReturn(g)
    \/ \E g \in Goroutines : MiddlewareReturn(g)
    \/ TaskSend
    \/ SelectResult
    \/ SelectTimeout
    \/ DeadlineElapse
    \/ ParentCancel
    \/ WrapReturn

Spec == Init /\ [][Next]_vars

TypeOK ==
    /\ pc \in [Goroutines -> {"none", "start", "call", "select", "handler", "ret", "done",
                              "spawned", "exited"}]
    /\ \A g \in Goroutines : depth[g] \in 0..Len(wrapped)
    /\ Len(resultChan) <= 1

(***************************************************************************)
(* A response builder used on its own (pkg/http/response.go): any          *)
(* configuration calls, then one terminal call                             *)
(***************************************************************************)
\* everything of the pipeline except the builder and the response
chainVars == <<inputVars, parentDone, pc, depth, ret, ctx, timeoutCtx, resultChan, events,
               delegated, rejected, seen, atDeadline, selectSaw, timeoutRet, result, invokeErr,
               logs, segment, annotations>>

RequestIDs == {"", "req-1", "req-2"}
Paths == {"", "/hello"}
CustomHeaders == {"Content-Type", "X-Request-ID", "Cache-Control", "X-Custom"}
HeaderSets == {<<>>, ("Access-Control-Allow-Origin" :> "https://example.com") @@ ("X-Custom" :> "a")}
MaxAges == {0, 300}
Messages == {<<"bad", "input">>}
Datas == {<<>>, <<HandlerData>>}
Causes == {<<>>, <<Cause>>}
CustomStatuses == {200, 404}

Call(op, id, path, hdrs, n) == [op |-> op, id |-> id, path |-> path, hdrs |-> hdrs, n |-> n]
Terminal(call, family, status, data, message, err) ==
    [call |-> call, family |-> family, status |-> status, data |-> data,
     message |-> message, err |-> err]

Configure(call, rb) ==
    /\ terminal = <<>>
    /\ Len(calls) < MaxCalls
    /\ calls' = Append(calls, call)
    /\ responseBuilder' = rb
    /\ UNCHANGED <<chainVars, response, terminal, configVars, timerVars, concVars, extraVars>>

Terminate(t, resp) ==
    /\ terminal = <<>>
    /\ terminal' = <<t>>
    /\ response' = <<resp>>
    /\ UNCHANGED <<chainVars, responseBuilder, calls, configVars, timerVars, concVars, extraVars>>

CallWithRequestID ==
    \E id \in RequestIDs :
        Configure(Call("WithRequestID", id, "", <<>>, 0), WithRequestID(responseBuilder, id))
CallWithPath ==
    \E path \in Paths :
        Configure(Call("WithPath", "", path, <<>>, 0), WithPath(responseBuilder, path))
CallWithHeader ==
    \E key \in CustomHeaders :
        Configure(Call("WithHeader", "", "", key :> "text/plain", 0),
                  WithHeader(responseBuilder, key, "text/plain"))
CallWithHeaders ==
    \E headers \in HeaderSets :
        Configure(Call("WithHeaders", "", "", headers, 0), WithHeaders(responseBuilder, headers))
CallWithCORS ==
    Configure(Call("WithCORS", "", "", <<>>, 0), WithCORS(responseBuilder))
CallWithCacheControl ==
    \E maxAge \in MaxAges :
        Configure(Call("WithCacheControl", "", "", <<>>, maxAge),
                  WithCacheControl(responseBuilder, maxAge))

CallOK ==
    \E data \in Datas :
        Terminate(Terminal("OK", "success", 200, data, <<>>, <<>>), OK(responseBuilder, data))
CallCreated ==
    \E data \in Datas :
        Terminate(Terminal("Created", "success", 201, data, <<>>, <<>>),
                  Created(responseBuilder, data))
CallNoContent ==
    Terminate(Terminal("NoContent", "success", 204, <<>>, <<>>, <<>>), NoContent(responseBuilder))
CallCustom ==
    \E statusCode \in CustomStatuses, data \in Datas :
        Terminate(Terminal("Custom", "success", statusCode, data, <<>>, <<>>),
                  Custom(responseBuilder, statusCode, data))
CallBadRequest ==
    \E message \in Messages, err \in Causes :
        Terminate(Terminal("BadRequest", "error", 400, <<>>, message, err),
                  BadRequest(responseBuilder, message, err))
CallUnauthorized ==
    \E message \in Messages :
        Terminate(Terminal("Unauthorized", "error", 401, <<>>, message, <<>>),
                  Unauthorized(responseBuilder, message))
CallForbidden ==
    \E message \in Messages :
        Terminate(Terminal("Forbidden", "error", 403, <<>>, message, <<>>),
                  Forbidden(responseBuilder, message))
CallNotFound ==
    \E message \in Messages :
        Terminate(Terminal("NotFound", "error", 404, <<>>, message, <<>>),
                  NotFound(responseBuilder, message))
CallMethodNotAllowed ==
    \E message \in Messages :
        Terminate(Terminal("MethodNotAllowed", "error", 405, <<>>, message, <<>>),
                  MethodNotAllowed(responseBuilder, message))
CallConflict ==
    \E message \in Messages, err \in Causes :
        Terminate(Terminal("Conflict", "error", 409, <<>>, message, err),
                  Conflict(responseBuilder, message, err))
CallUnprocessableEntity ==
    \E message \in Messages, err \in Causes :
        Terminate(Terminal("UnprocessableEntity", "error", 422, <<>>, message, err),
                  UnprocessableEntity(responseBuilder, message, err))
CallTooManyRequests ==
    \E message \in Messages :
        Terminate(Terminal("TooManyRequests", "error", 429, <<>>, message, <<>>),
                  TooManyRequests(responseBuilder, message))
CallInternalServerError ==
    \E message \in Messages, err \in Causes :
        Terminate(Terminal("InternalServerError", "error", 500, <<>>, message, err),
                  InternalServerError(responseBuilder, message, err))
CallServiceUnavailable ==
    \E message \in Messages :
        Terminate(Terminal("ServiceUnavailable", "error", 503, <<>>, message, <<>>),
                  ServiceUnavailable(responseBuilder, message))

\* the pipeline at rest while another component is exercised
PipelineIdle == PipelineInit(Input("v1", <<>>, Req("GET", <<>>, <<>>), DefaultConfig, <<>>), "none")

BuilderInit ==
    /\ PipelineIdle
    /\ BuilderIdle
    /\ ConfigIdle
    /\ TimerIdle
    /\ ConcIdle
    /\ ExtraIdle

BuilderNext ==
    \/ CallWithRequestID
    \/ CallWithPath
    \/ CallWithHeader
    \/ CallWithHeaders
    \/ CallWithCORS
    \/ CallWithCacheControl
    \/ CallOK
    \/ CallCreated
    \/ CallNoContent
    \/ CallCustom
    \/ CallBadRequest
    \/ CallUnauthorized
    \/ CallForbidden
    \/ CallNotFound
    \/ CallMethodNotAllowed
    \/ CallConflict
    \/ CallUnprocessableEntity
    \/ CallTooManyRequests
    \/ CallInternalServerError
    \/ CallServiceUnavailable

SpecBuilder == BuilderInit /\ [][BuilderNext]_vars

(***************************************************************************)
(* Configuration loader (package config): envconfig.Process over the       *)
(* struct tags, then Config.validate                                       *)
(***************************************************************************)
ContainsPhrase(msg, phrase) ==
    \E i \in 1..(Len(msg) - Len(phrase) + 1) : SubSeq(msg, i, i + Len(phrase) - 1) = phrase

\* time.ParseDuration on the texts used here, in whole seconds; <<>>: parse error
ParseDuration(text) ==
    CASE text = "0s"  -> <<0>>
      [] text = "-5s" -> <<0 - 5>>
      [] text = "10s" -> <<10>>
      [] text = "15s" -> <<15>>
      [] text = "29s" -> <<29>>
      [] text = "30s" -> <<30>>
      [] text = "1m"  -> <<60>>
      [] OTHER        -> <<>>
\* strconv.ParseInt on the texts used here
ParseInt(text) ==
    CASE text = "0"   -> <<0>>
      [] text = "-1"  -> <<0 - 1>>
      [] text = "300" -> <<300>>
      [] text = "600" -> <<600>>
      [] OTHER        -> <<>>
\* strconv.ParseBool on the texts used here
ParseBool(text) ==
    CASE text \in {"true", "1"}  -> <<TRUE>>
      [] text \in {"false", "0"} -> <<FALSE>>
      [] OTHER                   -> <<>>

\* the struct tags of Config: variable, field, default and type, in field order
ConfigFields ==
    <<[key |-> "SERVICE_NAME",     field |-> "ServiceName",     def |-> "lambda-service", type |-> "string"],
      [key |-> "SERVICE_VERSION",  field |-> "ServiceVersion",  def |-> "1.0.0",          type |-> "string"],
      [key |-> "LOG_LEVEL",        field |-> "LogLevel",        def |-> "info",           type |-> "string"],
      [key |-> "LOG_FORMAT",       field |-> "LogFormat",       def |-> "json",           type |-> "string"],
      [key |-> "REQUEST_TIMEOUT",  field |-> "RequestTimeout",  def |-> "30s",            type |-> "duration"],
      [key |-> "RESPONSE_TIMEOUT", field |-> "ResponseTimeout", def |-> "29s",            type |-> "duration"],
      [key |-> "ENABLE_TRACING",   field |-> "EnableTracing",   def |-> "true",           type |-> "bool"],
      [key |-> "CACHE_MAX_AGE",    field |-> "CacheMaxAge",     def |-> "300",            type |-> "int"]>>

\* the text a field is processed from: the variable when set (even to ""),
\* the default otherwise
FieldText(env, f) == IF env[f.key] # <<>> THEN env[f.key][1] ELSE f.def
FieldValue(env, f) ==
    CASE f.type = "string"   -> <<FieldText(env, f)>>
      [] f.type = "duration" -> ParseDuration(FieldText(env, f))
      [] f.type = "int"      -> ParseInt(FieldText(env, f))
      [] f.type = "bool"     -> ParseBool(FieldText(env, f))

\* envconfig.Process("", &cfg): the first field that does not parse is the error
Process(env) ==
    LET bad == {i \in 1..Len(ConfigFields) : FieldValue(env, ConfigFields[i]) = <<>>}
        V(i) == FieldValue(env, ConfigFields[i])[1]
    IN  IF bad # {}
        THEN [err |-> <<"envconfig.Process", ":", "assigning",
                        ConfigFields[CHOOSE i \in bad : \A j \in bad : i <= j].key>>,
              cfg |-> <<>>]
        ELSE [err |-> <<>>,
              cfg |-> <<[ServiceName |-> V(1), ServiceVersion |-> V(2), LogLevel |-> V(3),
                         LogFormat |-> V(4), RequestTimeout |-> V(5), ResponseTimeout |-> V(6),
                         EnableTracing |-> V(7), CacheMaxAge |-> V(8)]>>]

\* a comparison that lets equal timeouts through
validateAllowsEqualTimeouts(c) ==
    IF c.ServiceName = "" THEN <<"service", "name", "cannot", "be", "empty">>
    ELSE IF c.ServiceVersion = "" THEN <<"service", "version", "cannot", "be", "empty">>
    ELSE IF c.RequestTimeout <= 0 THEN <<"request", "timeout", "must", "be", "positive">>
    ELSE IF c.ResponseTimeout <= 0 THEN <<"response", "timeout", "must", "be", "positive">>
    ELSE IF c.ResponseTimeout > c.RequestTimeout
    THEN <<"response", "timeout", "must", "be", "less", "than", "request", "timeout">>
    ELSE IF c.CacheMaxAge < 0 THEN <<"cache", "max", "age", "cannot", "be", "negative">>
    ELSE IF c.LogLevel \notin {"debug", "info", "warn", "error", "fatal", "panic"}
    THEN <<"invalid", "log", "level", ":", c.LogLevel>>
    ELSE IF c.LogFormat \notin {"json", "console"}
    THEN <<"invalid", "log", "format", ":", c.LogFormat>>
    ELSE <<>>

\* a message copied from the check above it
validateCopiedMessage(c) ==
    IF c.ServiceName = "" THEN <<"service", "name", "cannot", "be", "empty">>
    ELSE IF c.ServiceVersion = "" THEN <<"service", "version", "cannot", "be", "empty">>
    ELSE IF c.RequestTimeout <= 0 THEN <<"request", "timeout", "must", "be", "positive">>
    ELSE IF c.ResponseTimeout <= 0 THEN <<"request", "timeout", "must", "be", "positive">>
    ELSE IF c.ResponseTimeout >= c.RequestTimeout
    THEN <<"response", "timeout", "must", "be", "less", "than", "request", "timeout">>
    ELSE IF c.CacheMaxAge < 0 THEN <<"cache", "max", "age", "cannot", "be", "negative">>
    ELSE IF c.LogLevel \notin {"debug", "info", "warn", "error", "fatal", "panic"}
    THEN <<"invalid", "log", "level", ":", c.LogLevel>>
    ELSE IF c.LogFormat \notin {"json", "console"}
    THEN <<"invalid", "log", "format", ":", c.LogFormat>>
    ELSE <<>>

\* Config.validate: the error text, <<>> for nil
validate(c) ==
    IF c.ServiceName = "" THEN <<"service", "name", "cannot", "be", "empty">>
    ELSE IF c.ServiceVersion = "" THEN <<"service", "version", "cannot", "be", "empty">>
    ELSE IF c.RequestTimeout <= 0 THEN <<"request", "timeout", "must", "be", "positive">>
    ELSE IF c.ResponseTimeout <= 0 THEN <<"response", "timeout", "must", "be", "positive">>
    ELSE IF c.ResponseTimeout >= c.RequestTimeout
    THEN <<"response", "timeout", "must", "be", "less", "than", "request", "timeout">>
    ELSE IF c.CacheMaxAge < 0 THEN <<"cache", "max", "age", "cannot", "be", "negative">>
    ELSE IF c.LogLevel \notin {"debug", "info", "warn", "error", "fatal", "panic"}
    THEN <<"invalid", "log", "level", ":", c.LogLevel>>
    ELSE IF c.LogFormat \notin {"json", "console"}
    THEN <<"invalid", "log", "format", ":", c.LogFormat>>
    ELSE <<>>

\* Load's two results: the settings (<<>> for nil) and the error text (<<>> for nil)
LoadResult(env) ==
    LET p == Process(env) IN
    IF p.err # <<>>
    THEN [cfg |-> <<>>, err |-> <<"failed", "to", "load", "configuration", ":">> \o p.err]
    ELSE IF validate(p.cfg[1]) # <<>>
    THEN [cfg |-> <<>>,
          err |-> <<"configuration", "validation", "failed", ":">> \o validate(p.cfg[1])]
    ELSE [cfg |-> p.cfg, err |-> <<>>]

\* the environments tried
Unset == <<>>
Environments ==
    [SERVICE_NAME     : {Unset, <<"">>, <<"users">>},
     SERVICE_VERSION  : {Unset, <<"">>},
     LOG_LEVEL        : {Unset, <<"debug">>, <<"invalid">>},
     LOG_FORMAT       : {Unset, <<"console">>, <<"xml">>},
     REQUEST_TIMEOUT  : {Unset, <<"0s">>, <<"-5s">>, <<"10s">>, <<"abc">>},
     RESPONSE_TIMEOUT : {Unset, <<"0s">>, <<"-5s">>, <<"10s">>, <<"15s">>, <<"1m">>},
     ENABLE_TRACING   : {Unset, <<"false">>, <<"maybe">>},
     CACHE_MAX_AGE    : {Unset, <<"-1">>, <<"0">>, <<"">>}]

Load ==
    /\ loaded = <<>>
    /\ loaded' = <<[call |-> "Load", panicked |-> FALSE,
                    cfg |-> LoadResult(environ).cfg, err |-> LoadResult(environ).err]>>
    /\ UNCHANGED <<chainVars, responseBuilder, response, builderVars, environ, timerVars, concVars, extraVars>>

\* MustLoad: Load, and panic when it fails
MustLoad ==
    /\ loaded = <<>>
    /\ loaded' = <<[call |-> "MustLoad", panicked |-> LoadResult(environ).err # <<>>,
                    cfg |-> LoadResult(environ).cfg, err |-> LoadResult(environ).err]>>
    /\ UNCHANGED <<chainVars, responseBuilder, response, builderVars, environ, timerVars, concVars, extraVars>>

ConfigInit ==
    /\ PipelineIdle
    /\ BuilderIdle
    /\ TimerIdle
    /\ ConcIdle
    /\ ExtraIdle
    /\ environ \in Environments
    /\ loaded = <<>>

ConfigNext == Load \/ MustLoad

SpecConfig == ConfigInit /\ [][ConfigNext]_vars

(***************************************************************************)
(* Tracer.WithTimer (package observability).  A panic of the timed         *)
(* function is an outcome of its own; a nil function panics when called.   *)
(***************************************************************************)
TimerNames == {"getUsersFromDatabase", "render"}
FnErrors == {"no rows", "disk full"}
FnOutcomes == {"nil", "panic"} \cup FnErrors

Frame(name, fn, seg) == [name |-> name, fn |-> fn, seg |-> seg, pc |-> "fn", out |-> <<>>]
Top == stack[Len(stack)]
SetTop(frame) == [stack EXCEPT ![Len(stack)] = frame]

\* xray.GetSegment on the context a new call is given: the innermost open
\* subsegment of the calls in progress, else the caller's segment (0), else none
SegmentInContext ==
    LET own == {i \in 1..Len(stack) : stack[i].seg # 0}
    IN  IF own # {} THEN <<stack[CHOOSE i \in own : \A j \in own : j <= i].seg>>
        ELSE IF ctxSegment THEN <<0>>
        ELSE <<>>

\* StartSubsegment: nil (0) when tracing is off or the context has no segment,
\* else the index of the subsegment it opens
StartSubsegment(name) ==
    IF ~tracerEnabled \/ SegmentInContext = <<>>
    THEN [seg |-> 0, segs |-> segs]
    ELSE [seg |-> Len(segs) + 1,
          segs |-> Append(segs, [name |-> name, parent |-> SegmentInContext[1], closes |-> 0,
                                 annotations |-> {}, errors |-> <<>>,
                                 recordedAtClose |-> FALSE])]

\* AddAnnotation / AddError on the segment of the call's own context
TimerAddAnnotation(seg, key) ==
    IF ~tracerEnabled \/ seg = 0 THEN segs
    ELSE [segs EXCEPT ![seg].annotations = @ \cup {key}]
TimerAddError(seg, err) ==
    IF ~tracerEnabled \/ err = "nil" \/ seg = 0 THEN segs
    ELSE [segs EXCEPT ![seg].errors = Append(@, err)]

\* a Close that closes only when it is given an error
CloseOnlyWithError(seg, err) ==
    IF seg = 0 THEN segs
    ELSE IF err # "nil"
    THEN [segs EXCEPT ![seg].errors = Append(@, err),
                      ![seg].closes = @ + 1,
                      ![seg].recordedAtClose = "duration_ms" \in segs[seg].annotations]
    ELSE segs

\* Tracer.Close(seg, err)
Close(seg, err) ==
    IF seg = 0 THEN segs
    ELSE [segs EXCEPT ![seg].errors = IF err # "nil" THEN Append(@, err) ELSE @,
                      ![seg].closes = @ + 1,
                      ![seg].recordedAtClose = "duration_ms" \in segs[seg].annotations]

\* `return err`
WithTimerResult(out) == out

\* WithTimer up to the call of fn: start the subsegment, register the deferred
\* function; called by the program or, nested, by a timed function
WithTimerCall ==
    /\ Len(stack) < MaxDepth
    /\ Len(stack) + Len(finished) < MaxTimed
    /\ stack # <<>> => (Top.pc = "fn" /\ Top.fn = "supplied")
    /\ \E name \in TimerNames, fn \in {"supplied", "nil"} :
          /\ segs' = StartSubsegment(name).segs
          /\ stack' = Append(stack, Frame(name, fn, StartSubsegment(name).seg))
    /\ UNCHANGED <<chainVars, responseBuilder, response, builderVars, configVars, concVars, extraVars,
                   tracerEnabled, ctxSegment, finished>>

\* fn returns or panics; on an error WithTimer adds it to the segment
FnReturn ==
    /\ stack # <<>>
    /\ Top.pc = "fn"
    /\ Top.fn = "supplied"
    /\ \E out \in FnOutcomes :
          /\ stack' = SetTop([Top EXCEPT !.out = <<out>>, !.pc = "record"])
          /\ segs' = IF out = "panic" THEN segs ELSE TimerAddError(Top.seg, out)
    /\ UNCHANGED <<chainVars, responseBuilder, response, builderVars, configVars, concVars, extraVars,
                   tracerEnabled, ctxSegment, finished>>

\* calling a nil fn panics
NilFnPanic ==
    /\ stack # <<>>
    /\ Top.pc = "fn"
    /\ Top.fn = "nil"
    /\ stack' = SetTop([Top EXCEPT !.out = <<"panic">>, !.pc = "record"])
    /\ UNCHANGED <<chainVars, responseBuilder, response, builderVars, configVars, concVars, extraVars,
                   tracerEnabled, ctxSegment, segs, finished>>

\* the deferred function, first half: the duration annotation
DeferredRecord ==
    /\ stack # <<>>
    /\ Top.pc = "record"
    /\ segs' = TimerAddAnnotation(Top.seg, "duration_ms")
    /\ stack' = SetTop([Top EXCEPT !.pc = "close"])
    /\ UNCHANGED <<chainVars, responseBuilder, response, builderVars, configVars, concVars, extraVars,
                   tracerEnabled, ctxSegment, finished>>

\* the deferred function, second half: t.Close(seg, nil)
DeferredClose ==
    /\ stack # <<>>
    /\ Top.pc = "close"
    /\ segs' = Close(Top.seg, "nil")
    /\ stack' = SetTop([Top EXCEPT !.pc = "return"])
    /\ UNCHANGED <<chainVars, responseBuilder, response, builderVars, configVars, concVars, extraVars,
                   tracerEnabled, ctxSegment, finished>>

\* WithTimer finishes: it returns err to its caller, or the panic goes on
\* into the calling function
WithTimerReturn ==
    /\ stack # <<>>
    /\ Top.pc = "return"
    /\ finished' = Append(finished,
          [name |-> Top.name, fn |-> Top.fn, seg |-> Top.seg, out |-> Top.out[1],
           ret |-> IF Top.out[1] = "panic" THEN <<>> ELSE <<WithTimerResult(Top.out[1])>>,
           closes |-> IF Top.seg = 0 THEN 0 ELSE segs[Top.seg].closes])
    /\ LET rest == SubSeq(stack, 1, Len(stack) - 1) IN
       stack' = IF rest # <<>> /\ Top.out[1] = "panic"
                THEN [rest EXCEPT ![Len(rest)] = [@ EXCEPT !.out = <<"panic">>, !.pc = "record"]]
                ELSE rest
    /\ UNCHANGED <<chainVars, responseBuilder, response, builderVars, configVars, concVars, extraVars,
                   tracerEnabled, ctxSegment, segs>>

TimerInit ==
    /\ PipelineIdle
    /\ BuilderIdle
    /\ ConfigIdle
    /\ ConcIdle
    /\ ExtraIdle
    /\ tracerEnabled \in BOOLEAN
    /\ ctxSegment \in BOOLEAN
    /\ stack = <<>>
    /\ segs = <<>>
    /\ finished = <<>>

TimerNext ==
    \/ WithTimerCall
    \/ FnReturn
    \/ NilFnPanic
    \/ DeferredRecord
    \/ DeferredClose
    \/ WithTimerReturn

SpecTimer == TimerInit /\ [][TimerNext]_vars

(***************************************************************************)
(* Concurrent invocations of one wrapped handler: Wrap(handlerFunc,        *)
(* TimeoutMiddleware()).  The Handler (config, logger, tracer) is shared   *)
(* and only read; what the returned function allocates is held by cell.    *)
(***************************************************************************)
Invocations == 1..MaxInvocations

\* the AwsRequestID the Lambda runtime gives invocation i
RequestIDOf(i) == "req-" \o Itoa(i)
ConcPaths == {"/hello", "/users"}

\* a builder made once, when the handler is wrapped
BuilderCellShared(i) == 1

\* `responseBuilder := http.NewResponseBuilder()...` is a local of the call
BuilderCell(i) == i

\* `ctx, seg := h.tracer.StartSegment(ctx, ...)` is a local of the call
SegmentCell(i) == i

\* a channel made once, when the middleware is built
ChannelCellShared(i) == 1

\* `resultChan := make(chan ..., 1)` is a local of the call
ChannelCell(i) == i

OwnID(i) == IF invocation[i].lc = <<>> THEN "" ELSE invocation[i].lc[1]

\* what the business handler may return for a request
ConcOutcomes(req) ==
    {[data |-> <<[message |-> <<"handled">>, path |-> req.Path]>>, err |-> NilError],
     [data |-> <<>>, err |-> NewNotFoundError(<<"user", "not", "found">>)]}

\* Logger.WithContext(ctx).Info(...): the entry carries the request ID of ctx
SinkEntry(i, msg, status) ==
    [msg |-> msg, request_id |-> OwnID(i), path |-> invocation[i].request.Path,
     status |-> status]

Annotate(cell, key, value) ==
    [segments EXCEPT ![cell].ann = (key :> value) @@ @]

\* the function Wrap returned, up to the call of the wrapped chain
ConcInvoke(i) ==
    /\ invocation[i].pc = "start"
    /\ LET req == invocation[i].request
           segAnn == IF invocation[i].lc = <<>>
                     THEN ("service" :> DefaultConfig.ServiceName)
                     ELSE ("service" :> DefaultConfig.ServiceName)
                              @@ ("aws_request_id" :> OwnID(i))
       IN  /\ segments' = (SegmentCell(i) :>
                             [ann |-> ("http_method" :> req.HTTPMethod) @@ ("http_path" :> req.Path)
                                         @@ ("request_id" :> OwnID(i)) @@ segAnn,
                              closed |-> FALSE]) @@ segments
           /\ sink' = IF invocation[i].lc # <<>>
                      THEN Append(sink, SinkEntry(i, "Lambda function invocation started", 0))
                      ELSE sink
           /\ builders' = (BuilderCell(i) :>
                             WithCacheControl(WithCORS(WithPath(WithRequestID(NewResponseBuilder,
                                 OwnID(i)), req.Path)), DefaultConfig.CacheMaxAge)) @@ builders
    /\ invocation' = [invocation EXCEPT ![i].pc = "timeout"]
    /\ UNCHANGED <<chainVars, responseBuilder, response, builderVars, configVars, timerVars, extraVars,
                   channels>>

\* TimeoutMiddleware up to the select: the channel is made, the goroutine started
ConcTimeout(i) ==
    /\ invocation[i].pc = "timeout"
    /\ channels' = (ChannelCell(i) :> <<>>) @@ channels
    /\ invocation' = [invocation EXCEPT ![i].pc = "select", ![i].gpc = "run"]
    /\ UNCHANGED <<chainVars, responseBuilder, response, builderVars, configVars, timerVars, extraVars,
                   builders, segments, sink>>

\* the goroutine: next(timeoutCtx, request), then the send on the channel
ConcHandler(i) ==
    /\ invocation[i].gpc = "run"
    /\ Len(channels[ChannelCell(i)]) < 1
    /\ \E out \in ConcOutcomes(invocation[i].request) :
          channels' = [channels EXCEPT ![ChannelCell(i)] = Append(@, out)]
    /\ invocation' = [invocation EXCEPT ![i].gpc = "done"]
    /\ UNCHANGED <<chainVars, responseBuilder, response, builderVars, configVars, timerVars, extraVars,
                   builders, segments, sink>>

\* the select of TimeoutMiddleware, branch `result := <-resultChan`
ConcSelectResult(i) ==
    /\ invocation[i].pc = "select"
    /\ channels[ChannelCell(i)] # <<>>
    /\ invocation' = [invocation EXCEPT ![i].pc = "ret",
                                        ![i].ret = <<Head(channels[ChannelCell(i)])>>]
    /\ channels' = [channels EXCEPT ![ChannelCell(i)] = Tail(@)]
    /\ UNCHANGED <<chainVars, responseBuilder, response, builderVars, configVars, timerVars, extraVars,
                   builders, segments, sink>>

\* the select of TimeoutMiddleware, branch `<-timeoutCtx.Done()`
ConcSelectTimeout(i) ==
    /\ invocation[i].pc = "select"
    /\ segments' = Annotate(SegmentCell(i), "timeout", TRUE)
    /\ invocation' = [invocation EXCEPT ![i].pc = "ret",
          ![i].ret = <<[data |-> <<>>, err |-> TimeoutMiddlewareError(DefaultConfig)]>>]
    /\ UNCHANGED <<chainVars, responseBuilder, response, builderVars, configVars, timerVars, extraVars,
                   builders, channels, sink>>

\* the function Wrap returned, from the return of the wrapped chain
ConcReturn(i) ==
    /\ invocation[i].pc = "ret"
    /\ LET data == invocation[i].ret[1].data
           err  == invocation[i].ret[1].err
           rb   == builders[BuilderCell(i)]
           resp == IF err # NilError THEN WrapErrorResponse(rb, err) ELSE OK(rb, data)
           c    == SegmentCell(i)
       IN  /\ invocation' = [invocation EXCEPT ![i].pc = "done", ![i].response = <<resp>>]
           /\ sink' =
                IF err # NilError
                THEN sink \o <<SinkEntry(i, "Handler execution failed", 0),
                               SinkEntry(i, "HTTP request completed", resp.StatusCode)>>
                ELSE sink \o <<SinkEntry(i, "HTTP request completed", resp.StatusCode),
                               SinkEntry(i, "Lambda function invocation completed", 0)>>
           /\ segments' =
                [segments EXCEPT
                   ![c].ann = IF err # NilError
                              THEN ("error" :> TRUE) @@ ("http_status" :> resp.StatusCode) @@ @
                              ELSE ("success" :> TRUE) @@ ("http_status" :> resp.StatusCode) @@ @,
                   ![c].closed = TRUE]
    /\ UNCHANGED <<chainVars, responseBuilder, response, builderVars, configVars, timerVars, extraVars,
                   builders, channels>>

ConcInit ==
    /\ PipelineIdle
    /\ BuilderIdle
    /\ ConfigIdle
    /\ TimerIdle
    /\ ExtraIdle
    /\ invocation \in
          {f \in [Invocations ->
                    [lc : {<<>>} \cup {<<RequestIDOf(i)>> : i \in Invocations},
                     request : {[Req("GET", <<>>, <<>>) EXCEPT !.Path = p] : p \in ConcPaths},
                     pc : {"start"}, gpc : {"idle"}, ret : {<<>>}, response : {<<>>}]] :
              \A i \in Invocations : f[i].lc \in {<<>>, <<RequestIDOf(i)>>}}
    /\ builders = <<>>
    /\ segments = <<>>
    /\ channels = <<>>
    /\ sink = <<>>

ConcNext ==
    \/ \E i \in Invocations : ConcInvoke(i)
    \/ \E i \in Invocations : ConcTimeout(i)
    \/ \E i \in Invocations : ConcHandler(i)
    \/ \E i \in Invocations : ConcSelectResult(i)
    \/ \E i \in Invocations : ConcSelectTimeout(i)
    \/ \E i \in Invocations : ConcReturn(i)

SpecConcurrent == ConcInit /\ [][ConcNext]_vars

(***************************************************************************)
(* The tracer's operations, called in any order on the contexts and        *)
(* handles the caller holds.  The caller's first context may already carry *)
(* a segment that somebody else opened.                                    *)
(***************************************************************************)
\* everything the specifications above are about
oldVars == <<chainVars, responseBuilder, response, builderVars, configVars, timerVars, concVars>>

SegmentNames == {"lambda-service", "db"}
AnnotationKeys == {"user_id"}
TracerErrors == {"nil", "boom"}

NewSegment(name, parent, ann) ==
    [name |-> name, parent |-> parent, ann |-> ann, meta |-> {}, errors |-> <<>>, closes |-> 0]

\* StartSegment: (ctx, nil) when disabled, else a new segment and a context
\* that carries it
TracerStartSegment(c, name) ==
    IF ~apiEnabled THEN [ctx |-> c, seg |-> 0, segs |-> xsegs]
    ELSE [ctx |-> <<Len(xsegs) + 1>>, seg |-> Len(xsegs) + 1,
          segs |-> Append(xsegs, NewSegment(name, 0, {"service", "version"}))]

\* StartSubsegment: (ctx, nil) when disabled; xray.BeginSubsegment gives no
\* subsegment for a context without a segment
TracerStartSubsegment(c, name) ==
    IF ~apiEnabled THEN [ctx |-> c, seg |-> 0, segs |-> xsegs]
    ELSE IF c = <<>> THEN [ctx |-> c, seg |-> 0, segs |-> xsegs]
    ELSE [ctx |-> <<Len(xsegs) + 1>>, seg |-> Len(xsegs) + 1,
          segs |-> Append(xsegs, NewSegment(name, c[1], {}))]

TracerAddAnnotation(c, key) ==
    IF ~apiEnabled THEN xsegs
    ELSE IF c # <<>> THEN [xsegs EXCEPT ![c[1]].ann = @ \cup {key}] ELSE xsegs

TracerAddMetadata(c, namespace) ==
    IF ~apiEnabled THEN xsegs
    ELSE IF c # <<>> THEN [xsegs EXCEPT ![c[1]].meta = @ \cup {namespace}] ELSE xsegs

\* an AddError that does not look at the configuration
TracerAddErrorUnchecked(c, err) ==
    IF err = "nil" THEN xsegs
    ELSE IF c # <<>> THEN [xsegs EXCEPT ![c[1]].errors = Append(@, err)] ELSE xsegs

TracerAddError(c, err) ==
    IF ~apiEnabled \/ err = "nil" THEN xsegs
    ELSE IF c # <<>> THEN [xsegs EXCEPT ![c[1]].errors = Append(@, err)] ELSE xsegs

\* Close(seg, err): nothing on a nil handle
TracerClose(h, err) ==
    IF h = 0 THEN xsegs
    ELSE [xsegs EXCEPT ![h].errors = IF err # "nil" THEN Append(@, err) ELSE @,
                       ![h].closes = @ + 1]

\* one operation called: what it was given, what it returned, what it left
Called1(op, c, out, h, after) ==
    /\ ncalls < MaxTracerCalls
    /\ ncalls' = ncalls + 1
    /\ xsegs' = after
    /\ held' = held \cup {out}
    /\ handles' = handles \cup {h}
    /\ lastCall' = <<[op |-> op, in |-> c, out |-> out, handle |-> h, changed |-> after # xsegs]>>
    /\ UNCHANGED <<oldVars, errVars, reuseVars, apiEnabled>>

CallStartSegment ==
    \E c \in held, name \in SegmentNames :
        LET r == TracerStartSegment(c, name) IN Called1("StartSegment", c, r.ctx, r.seg, r.segs)

CallStartSubsegment ==
    \E c \in held, name \in SegmentNames :
        LET r == TracerStartSubsegment(c, name)
        IN  Called1("StartSubsegment", c, r.ctx, r.seg, r.segs)

CallAddAnnotation ==
    \E c \in held, key \in AnnotationKeys :
        Called1("AddAnnotation", c, c, 0, TracerAddAnnotation(c, key))

CallAddMetadata ==
    \E c \in held : Called1("AddMetadata", c, c, 0, TracerAddMetadata(c, "response"))

CallAddError ==
    \E c \in held, err \in TracerErrors :
        Called1("AddError", c, c, 0, TracerAddError(c, err))

CallClose ==
    \E h \in handles, err \in TracerErrors, c \in held :
        Called1("Close", c, c, h, TracerClose(h, err))

TracerInit ==
    /\ PipelineIdle
    /\ BuilderIdle
    /\ ConfigIdle
    /\ TimerIdle
    /\ ConcIdle
    /\ ErrIdle
    /\ ReuseIdle
    /\ apiEnabled \in BOOLEAN
    /\ \E pre \in BOOLEAN :
          /\ xsegs = IF pre THEN <<NewSegment("facade", 0, {})>> ELSE <<>>
          /\ held = IF pre THEN {<<>>, <<1>>} ELSE {<<>>}
    /\ handles = {0}
    /\ lastCall = <<>>
    /\ ncalls = 0

TracerNext ==
    \/ CallStartSegment
    \/ CallStartSubsegment
    \/ CallAddAnnotation
    \/ CallAddMetadata
    \/ CallAddError
    \/ CallClose

SpecTracer == TracerInit /\ [][TracerNext]_vars

(***************************************************************************)
(* The error classifiers, applied to one error (or nil): GetStatusCode,    *)
(* IsRetryableError, the Is<Variant> predicates and the switch of Wrap.    *)
(***************************************************************************)
Variants == {"ValidationError", "NotFoundError", "ConflictError", "UnauthorizedError",
             "ForbiddenError", "TimeoutError", "InternalError", "BusinessLogicError",
             "ExternalServiceError"}

\* a mapping that leaves the timeout to the default, as the switch of Wrap does
GetStatusCodeTimeoutAsDefault(err) ==
    CASE err.type = "nil"                  -> 200
      [] err.type = "ValidationError"      -> 400
      [] err.type = "NotFoundError"        -> 404
      [] err.type = "ConflictError"        -> 409
      [] err.type = "UnauthorizedError"    -> 401
      [] err.type = "ForbiddenError"       -> 403
      [] err.type = "ExternalServiceError" -> err.StatusCode
      [] OTHER                             -> 500

\* GetStatusCode, as the error taxonomy describes it (its code is not among
\* the sources; TestLambdaError_GetStatusCode calls it)
GetStatusCode(err) ==
    CASE err.type = "nil"                  -> 200
      [] err.type = "ValidationError"      -> 400
      [] err.type = "NotFoundError"        -> 404
      [] err.type = "ConflictError"        -> 409
      [] err.type = "UnauthorizedError"    -> 401
      [] err.type = "ForbiddenError"       -> 403
      [] err.type = "TimeoutError"         -> 408
      [] err.type = "InternalError"        -> 500
      [] err.type = "BusinessLogicError"   -> 500
      [] err.type = "ExternalServiceError" -> err.StatusCode
      [] OTHER                             -> 500

\* a predicate that also looks at the wrapped cause
IsVariantUnwrapping(variant, err) ==
    \/ err.type = variant
    \/ err.Err # <<>> /\ err.Err[1].type = variant

\* IsValidationError .. IsExternalServiceError: `_, ok := err.(*Variant)`
IsVariant(variant, err) == err.type = variant

\* a retry test that knows only the flag
IsRetryableErrorFlagOnly(err) ==
    IF err.type = "ExternalServiceError" THEN err.Retryable ELSE FALSE

IsRetryableError(err) ==
    IF err.type = "ExternalServiceError" THEN err.Retryable
    ELSE IF IsVariant("TimeoutError", err) THEN TRUE
    ELSE FALSE

\* fmt.Errorf("...: %w", cause): an untyped error that wraps a cause
Wrapping(cause) == [UntypedError(<<"wrapped">>) EXCEPT !.Err = <<cause>>]

ExternalServiceErrors ==
    {NewExternalServiceError("billing", <<"upstream", "failed">>, sc, r, c) :
        sc \in {0, 429, 503}, r \in BOOLEAN,
        c \in {<<>>, <<NewTimeoutError(<<"database", "query">>, 7)>>}}

ErrorInputs ==
    {NilError} \cup HandlerErrors \cup ExternalServiceErrors
        \cup {NewTimeoutError(<<"database", "query">>, 0)}
        \cup {NewInternalError(<<"query", "failed">>, <<e>>) :
                e \in {NewValidationError(<<"name", "is", "required">>, "name", ""),
                       NewTimeoutError(<<"database", "query">>, 7),
                       NewExternalServiceError("billing", <<"upstream", "failed">>, 503, TRUE, <<>>)}}
        \cup {Wrapping(e) :
                e \in {NewNotFoundError(<<"user", "not", "found">>),
                       NewValidationError(<<"name", "is", "required">>, "name", ""),
                       NewTimeoutError(<<"database", "query">>, 7),
                       NewExternalServiceError("billing", <<"upstream", "failed">>, 503, TRUE, <<>>)}}

\* a classifier called on errIn: its result is kept under its name
Classified(fn, value) ==
    /\ fn \notin DOMAIN verdict
    /\ verdict' = (fn :> value) @@ verdict
    /\ UNCHANGED <<oldVars, tracerVars, reuseVars, errIn>>

CallGetStatusCode == Classified("GetStatusCode", GetStatusCode(errIn))

CallIsRetryableError == Classified("IsRetryableError", IsRetryableError(errIn))

CallIsVariant == \E v \in Variants : Classified(v, IsVariant(v, errIn))

\* the error path of Wrap: the status of the response its switch builds
CallWrapSwitch ==
    /\ errIn # NilError
    /\ Classified("Wrap", WrapErrorResponse(NewResponseBuilder, errIn).StatusCode)

ErrInit ==
    /\ PipelineIdle
    /\ BuilderIdle
    /\ ConfigIdle
    /\ TimerIdle
    /\ ConcIdle
    /\ TracerIdle
    /\ ReuseIdle
    /\ errIn \in ErrorInputs
    /\ verdict = <<>>

ErrNext ==
    \/ CallGetStatusCode
    \/ CallIsRetryableError
    \/ CallIsVariant
    \/ CallWrapSwitch

SpecErrors == ErrInit /\ [][ErrNext]_vars

(***************************************************************************)
(* One response builder used for several responses.  Header maps are Go    *)
(* maps, held by address: the builder's own map is written in place, and a *)
(* response holds the address of the map it was given.                     *)
(***************************************************************************)
\* the builder as the terminal calls read it
BuilderView == [requestID |-> builder.requestID, path |-> builder.path,
                headers |-> heap[builder.headers]]

\* a header map that is the builder's own
AllocHeadersAliased == builder.headers

\* `headers := make(map[string]string)` in getDefaultHeaders
AllocHeaders == Len(heap) + 1

ReuseStep ==
    /\ nops < MaxOps
    /\ nops' = nops + 1
    /\ UNCHANGED <<oldVars, tracerVars, errVars>>

ReuseWithRequestID ==
    /\ ReuseStep
    /\ \E id \in RequestIDs : builder' = [builder EXCEPT !.requestID = id]
    /\ UNCHANGED <<heap, produced>>

ReuseWithPath ==
    /\ ReuseStep
    /\ \E path \in Paths : builder' = [builder EXCEPT !.path = path]
    /\ UNCHANGED <<heap, produced>>

\* rb.headers[key] = value
ReuseWithHeader ==
    /\ ReuseStep
    /\ \E key \in CustomHeaders, value \in {"a", "text/plain"} :
          heap' = [heap EXCEPT ![builder.headers] = WithHeader(BuilderView, key, value).headers]
    /\ UNCHANGED <<builder, produced>>

ReuseWithCORS ==
    /\ ReuseStep
    /\ heap' = [heap EXCEPT ![builder.headers] = WithCORS(BuilderView).headers]
    /\ UNCHANGED <<builder, produced>>

\* a terminal call: the response is returned with the address of its header map
Produce(resp) ==
    /\ ReuseStep
    /\ heap' = IF AllocHeaders \in DOMAIN heap
               THEN [heap EXCEPT ![AllocHeaders] = resp.Headers]
               ELSE Append(heap, resp.Headers)
    /\ builder' = builder
    /\ produced' = Append(produced,
          [resp |-> [resp EXCEPT !.Headers = AllocHeaders],
           asReturned |-> resp,
           builderBefore |-> BuilderView,
           builderAfter |-> [BuilderView EXCEPT !.headers = heap'[builder.headers]]])

ReuseOK == \E data \in Datas : Produce(OK(BuilderView, data))

ReuseNotFound == \E message \in Messages : Produce(NotFound(BuilderView, message))

\* NewResponseBuilder(): the builder and its empty header map
ReuseInit ==
    /\ PipelineIdle
    /\ BuilderIdle
    /\ ConfigIdle
    /\ TimerIdle
    /\ ConcIdle
    /\ TracerIdle
    /\ ErrIdle
    /\ heap = <<NewResponseBuilder.headers>>
    /\ builder = [NewResponseBuilder EXCEPT !.headers = 1]
    /\ produced = <<>>
    /\ nops = 0

ReuseNext ==
    \/ ReuseWithRequestID
    \/ ReuseWithPath
    \/ ReuseWithHeader
    \/ ReuseWithCORS
    \/ ReuseOK
    \/ ReuseNotFound

SpecReuse == ReuseInit /\ [][ReuseNext]_vars

(***************************************************************************)
(* Properties                                                              *)
(***************************************************************************)
Returned == pc["main"] = "done"
ChainErr == result[1].err
Status == response[1].StatusCode
BodyMessage == response[1].Body[1].message

\* C1: whatever the chain and the business handler return (a value, a typed
\* error, an untyped error), the function Wrap / WrapV2 returned yields a
\* response together with a nil invocation error; the chain's error is never
\* the invocation's error.
C1_WrapperNeverFails ==
    /\ invokeErr \in {<<>>, <<NilError>>}
    /\ Returned => /\ invokeErr = <<NilError>>
                   /\ response # <<>>
                   /\ Status \in 100..599

C1_Witness ==
    /\ Returned
    /\ ChainErr.type = "untyped"
    /\ invokeErr = <<NilError>>
    /\ Status = 500

\* C2: the status of the response is a function of the variant of the chain's
\* error alone: ValidationError 400, NotFoundError 404, ConflictError 409,
\* UnauthorizedError 401, ForbiddenError 403, InternalError 500, every error the
\* wrapper does not recognise 500, and 200 when there is no error.
C2_StatusOf(type) ==
    CASE type = "nil"               -> 200
      [] type = "ValidationError"   -> 400
      [] type = "NotFoundError"     -> 404
      [] type = "ConflictError"     -> 409
      [] type = "UnauthorizedError" -> 401
      [] type = "ForbiddenError"    -> 403
      [] type = "InternalError"     -> 500
      [] OTHER                      -> 500

C3_TimeoutAnswers408 ==
    (Returned /\ atDeadline = "handler" /\ ChainErr = TimeoutMiddlewareError(config))
        => /\ Status = 408
           /\ Contains(BodyMessage, "timeout")
           /\ Contains(BodyMessage, DurationString(config.ResponseTimeout))

\* C7: an ExternalServiceError returned by the business handler gives a
\* response whose status is the error's own statusCode.
C7_ExternalStatusPassedThrough ==
    (Returned /\ ChainErr.type = "ExternalServiceError")
        => Status = ChainErr.StatusCode

\* positions in the history of entries and exits
Has(e, m) == \E i \in 1..Len(events) : events[i] = Event(e, m)
At(e, m) == CHOOSE i \in 1..Len(events) : events[i] = Event(e, m)
Count(e, m) == Cardinality({i \in 1..Len(events) : events[i] = Event(e, m)})
Precedes(e1, m1, e2, m2) == Has(e1, m1) /\ Has(e2, m2) /\ At(e1, m1) < At(e2, m2)
NumMws == Len(middlewares)
TimeoutReturned == timeoutRet[1]
TookTimeoutBranch == timeoutRet # <<>> /\ selectSaw[1].chose = "done"

EnteredInListOrder ==
    /\ \A i, j \in 1..NumMws : (i < j /\ Has("enter", j)) => Precedes("enter", i, "enter", j)
    /\ \A i \in 1..NumMws : Has("start", 0) => Precedes("enter", i, "start", 0)

\* C5 as stated: the middlewares are entered in list order before the business
\* handler runs and exited in reverse list order after it returns.
C5_NestedOrder ==
    /\ EnteredInListOrder
    /\ \A i, j \in 1..NumMws :
          (i < j /\ Has("exit", i) /\ Has("enter", j)) => Precedes("exit", j, "exit", i)
    /\ \A i \in 1..NumMws :
          (Has("exit", i) /\ Has("start", 0)) => Precedes("return", 0, "exit", i)

\* C5 amended: the middlewares are entered in list order before the business
\* handler runs, the first-listed outermost, and exited in reverse list order
\* after the handler returns, except across a timeout middleware that returns
\* its TimeoutError: it and the middlewares listed before it exit without
\* waiting for the middlewares listed after it and the business handler.
TimedOutWithin(i, j) ==
    \E k \in i..j : middlewares[k] = "timeout" /\ TookTimeoutBranch

C5_NestedOrderUnlessTimedOut ==
    /\ EnteredInListOrder
    /\ \A i, j \in 1..NumMws :
          (i < j /\ Has("exit", i) /\ Has("enter", j) /\ ~TimedOutWithin(i, j - 1))
              => Precedes("exit", j, "exit", i)
    /\ \A i \in 1..NumMws :
          (Has("exit", i) /\ Has("start", 0) /\ ~TimedOutWithin(i, NumMws))
              => Precedes("return", 0, "exit", i)

C5_Witness ==
    /\ Returned
    /\ NumMws = 2
    /\ events = <<Event("enter", 1), Event("enter", 2), Event("start", 0),
                  Event("return", 0), Event("exit", 2), Event("exit", 1)>>

\* C6: one invocation is a single pass: the business handler starts at most
\* once and no middleware is entered twice; it has started exactly once when
\* every middleware has delegated; when a middleware rejects, neither the
\* handler nor a later-listed middleware is ever entered.
Quiescent == Returned /\ pc["task"] \in {"none", "exited"}

C6_SinglePass ==
    /\ Count("start", 0) <= 1
    /\ \A i \in 1..NumMws : Count("enter", i) <= 1
    /\ (pc["main"] # "start" /\ delegated = 1..NumMws)
          => (Count("start", 0) = 1 \/ \E g \in Goroutines : AtMiddleware(g, "handler"))
    /\ (Quiescent /\ rejected = {}) => (delegated = 1..NumMws /\ Count("start", 0) = 1)
    /\ \A r \in rejected :
          /\ Count("start", 0) = 0
          /\ r.m \notin delegated
          /\ \A j \in 1..NumMws : j > r.m => ~Has("enter", j)

C6_Witness ==
    /\ Quiescent
    /\ NumMws = 2
    /\ \E r \in rejected : r.m = 1
    /\ Count("start", 0) = 0

\* the middleware at list position k returned err without calling next
RejectedWith(k, type, field) ==
    /\ k \notin delegated
    /\ \E r \in rejected : r.m = k /\ r.err.type = type /\ r.err.Field = field
ValidationAt(k) == middlewares[k] = "validation" /\ Has("enter", k)

HasCheckedBody == request.HTTPMethod \in {"POST", "PUT", "PATCH"} /\ request.Body # <<>>

\* header names compared without regard to case
LowerCase(name) ==
    CASE name = "Content-Type" -> "content-type"
      [] name = "CONTENT-TYPE" -> "content-type"
      [] OTHER                 -> name
ContentTypeAnyCase(headers) ==
    \/ Lookup(headers, "Content-Type") = "application/json"
    \/ /\ Lookup(headers, "Content-Type") = ""
       /\ \E name \in DOMAIN headers :
            LowerCase(name) = "content-type" /\ headers[name] = "application/json"
ContentTypeExactNames(headers) ==
    \/ Lookup(headers, "Content-Type") = "application/json"
    \/ /\ Lookup(headers, "Content-Type") = ""
       /\ Lookup(headers, "content-type") = "application/json"

ContentTypeRejected(k) ==
    /\ RejectedWith(k, "ValidationError", "content-type")
    /\ \E r \in rejected : r.m = k /\ r.err.Message =
          <<"Content-Type", "must", "be", "application/json", "for", "requests", "with", "body">>

C10_ParsedBodyFound ==
    \A k \in 1..NumMws : (middlewares[k] = "json" /\ Has("enter", k)) =>
        LET u == Unmarshal(request.Body) IN
        IF request.Body = <<>>
        THEN k \in delegated /\ (seen # <<>> => ~seen[1].found)
        ELSE IF u.err = <<>>
        THEN /\ k \in delegated
             /\ seen # <<>> => (seen[1].found /\ seen[1].body = u.val)
        ELSE /\ RejectedWith(k, "ValidationError", "body")
             /\ \E r \in rejected : r.m = k /\ r.err.Err = u.err

\* C11: in an error response the body's error field is present only when the
\* chain's error carried an attached cause, and then it is that cause's
\* message; an error without a cause (an untyped or unclassified one included)
\* gives a body without an error field.
C11_ErrorFieldOnlyAttachedCause ==
    (Returned /\ ChainErr # NilError) =>
        LET body == response[1].Body[1] IN
        IF ChainErr.Err # <<>>
        THEN "error" \in DOMAIN body /\ body.error = ErrorString(ChainErr.Err[1])
        ELSE "error" \notin DOMAIN body

\* the builder's terminal call and the body it produced, as a set of fields
Called == terminal # <<>>
TerminalCall == terminal[1]
Body == response[1].Body
Fields == DOMAIN Body[1]
RequestIDField ==
    IF responseBuilder.requestID # ""
    THEN "requestId" \in Fields /\ Body[1].requestId = <<responseBuilder.requestID>>
    ELSE "requestId" \notin Fields
ErrorEnvelope ==
    /\ Body # <<>>
    /\ {"message", "timestamp"} \subseteq Fields
    /\ Fields \subseteq {"message", "error", "requestId", "timestamp", "path"}
    /\ Body[1].message = TerminalCall.message
    /\ RequestIDField
SuccessEnvelope ==
    /\ Body # <<>>
    /\ {"data", "timestamp"} \subseteq Fields
    /\ Fields \subseteq {"data", "requestId", "timestamp"}
    /\ RequestIDField

SetsHeader(i, name) == calls[i].op \in {"WithHeader", "WithHeaders"} /\ name \in DOMAIN calls[i].hdrs
CORSHeaders ==
    ("Access-Control-Allow-Origin" :> "*")
    @@ ("Access-Control-Allow-Headers" :>
            "Content-Type,X-Amz-Date,Authorization,X-Api-Key,X-Amz-Security-Token")
    @@ ("Access-Control-Allow-Methods" :> "OPTIONS,POST,GET,PUT,DELETE")
ConfiguredRequestID ==
    LET set == {i \in 1..Len(calls) : calls[i].op = "WithRequestID"}
    IN  IF set = {} THEN "" ELSE calls[CHOOSE i \in set : \A j \in set : j <= i].id
ResponseHeaders == response[1].Headers
HasHeader(name, value) == name \in DOMAIN ResponseHeaders /\ ResponseHeaders[name] = value

\* C13 as stated: after any configuration calls and any terminal call the
\* headers contain Content-Type: application/json, contain X-Request-ID exactly
\* when a non-empty request ID was configured, contain the CORS headers when
\* WithCORS was called, and Cache-Control: max-age=<n> when WithCacheControl(n)
\* was called, n = 0 included.
C13_HeadersOfAnyCallSequence ==
    Called =>
        /\ HasHeader("Content-Type", "application/json")
        /\ "X-Request-ID" \in DOMAIN ResponseHeaders <=> ConfiguredRequestID # ""
        /\ (\E i \in 1..Len(calls) : calls[i].op = "WithCORS")
              => \A name \in DOMAIN CORSHeaders : HasHeader(name, CORSHeaders[name])
        /\ \A i \in 1..Len(calls) : calls[i].op = "WithCacheControl"
              => HasHeader("Cache-Control", "max-age=" \o Itoa(calls[i].n))

\* C13 amended: each of the four holds unless a header of the same name was
\* set by WithHeader or WithHeaders (custom headers replace the defaults) or,
\* for the CORS and Cache-Control headers, by a later call that sets the same
\* name; a header set by WithHeader or WithHeaders and not set again later is
\* in the response as given.
C13_HeadersUnlessOverridden ==
    Called =>
        LET n == Len(calls)
            SetByCustomHeader(name) == \E i \in 1..n : SetsHeader(i, name)
            LaterSet(i, name) == \E j \in (i + 1)..n :
                \/ SetsHeader(j, name)
                \/ calls[j].op = "WithCacheControl" /\ name = "Cache-Control"
                \/ calls[j].op = "WithCORS" /\ name \in DOMAIN CORSHeaders
        IN  /\ ~SetByCustomHeader("Content-Type") => HasHeader("Content-Type", "application/json")
            /\ ~SetByCustomHeader("X-Request-ID") =>
                  IF ConfiguredRequestID # ""
                  THEN HasHeader("X-Request-ID", ConfiguredRequestID)
                  ELSE "X-Request-ID" \notin DOMAIN ResponseHeaders
            /\ \A i \in 1..n : calls[i].op = "WithCORS" =>
                  \A name \in DOMAIN CORSHeaders :
                      ~LaterSet(i, name) => HasHeader(name, CORSHeaders[name])
            /\ \A i \in 1..n : calls[i].op = "WithCacheControl" =>
                  (~LaterSet(i, "Cache-Control")
                      => HasHeader("Cache-Control", "max-age=" \o Itoa(calls[i].n)))
            /\ \A i \in 1..n : \A name \in DOMAIN calls[i].hdrs :
                  (SetsHeader(i, name) /\ ~LaterSet(i, name))
                      => HasHeader(name, calls[i].hdrs[name])

C13_Witness ==
    /\ Called
    /\ Len(calls) = 3
    /\ calls[1].op = "WithCORS"
    /\ calls[2].op = "WithCacheControl" /\ calls[2].n = 0
    /\ calls[3].op = "WithRequestID" /\ calls[3].id = "req-1"
    /\ HasHeader("Cache-Control", "max-age=0")
    /\ HasHeader("X-Request-ID", "req-1")
    /\ HasHeader("Access-Control-Allow-Origin", "*")

\* the validation rules of the settings, stated on the parsed environment
Rules == {"name", "version", "request", "response", "order", "cache", "level", "format"}
RuleHolds(r, c) ==
    CASE r = "name"     -> c.ServiceName # ""
      [] r = "version"  -> c.ServiceVersion # ""
      [] r = "request"  -> c.RequestTimeout > 0
      [] r = "response" -> c.ResponseTimeout > 0
      [] r = "order"    -> c.ResponseTimeout < c.RequestTimeout
      [] r = "cache"    -> c.CacheMaxAge >= 0
      [] r = "level"    -> c.LogLevel \in {"debug", "info", "warn", "error", "fatal", "panic"}
      [] r = "format"   -> c.LogFormat \in {"json", "console"}
Keyword(r) ==
    CASE r = "name"     -> <<"service", "name", "cannot", "be", "empty">>
      [] r = "version"  -> <<"service", "version", "cannot", "be", "empty">>
      [] r = "request"  -> <<"request", "timeout", "must", "be", "positive">>
      [] r = "response" -> <<"response", "timeout", "must", "be", "positive">>
      [] r = "order"    -> <<"response", "timeout", "must", "be", "less", "than", "request", "timeout">>
      [] r = "cache"    -> <<"cache", "max", "age", "cannot", "be", "negative">>
      [] r = "level"    -> <<"invalid", "log", "level">>
      [] r = "format"   -> <<"invalid", "log", "format">>
Loaded == loaded # <<>>
Parsed == Process(environ).cfg
Violated == {r \in Rules : ~RuleHolds(r, Parsed[1])}

\* C14: Load returns settings exactly when every validation rule holds for the
\* parsed environment; returned settings satisfy 0 < response timeout <
\* request timeout, cache max-age >= 0, non-empty name and version, a known
\* log level and log format; otherwise Load returns an error and no settings.
C14_LoadReturnsIffValid ==
    Loaded =>
        LET l == loaded[1] IN
        /\ l.cfg = <<>> <=> l.err # <<>>
        /\ Parsed = <<>> => l.cfg = <<>>
        /\ Parsed # <<>> => (l.cfg # <<>> <=> Violated = {})
        /\ l.cfg # <<>> =>
              /\ l.cfg = Parsed
              /\ 0 < l.cfg[1].ResponseTimeout
              /\ l.cfg[1].ResponseTimeout < l.cfg[1].RequestTimeout
              /\ l.cfg[1].CacheMaxAge >= 0
              /\ l.cfg[1].ServiceName # "" /\ l.cfg[1].ServiceVersion # ""
              /\ l.cfg[1].LogLevel \in {"debug", "info", "warn", "error", "fatal", "panic"}
              /\ l.cfg[1].LogFormat \in {"json", "console"}

C14_Witness ==
    /\ Loaded
    /\ loaded[1].call = "Load"
    /\ environ.RESPONSE_TIMEOUT = <<"15s">>
    /\ environ.CACHE_MAX_AGE = <<"0">>
    /\ loaded[1].cfg # <<>>
    /\ loaded[1].cfg[1].ResponseTimeout = 15
    /\ loaded[1].cfg[1].RequestTimeout = 30

\* C15: for a configuration that violates exactly one validation rule, Load's
\* error message contains the keyword of that rule and of no other rule; the
\* keywords of different rules are distinct.
C15_ErrorNamesViolatedRule ==
    /\ \A r1, r2 \in Rules : r1 # r2 => Keyword(r1) # Keyword(r2)
    /\ (Loaded /\ Parsed # <<>> /\ Cardinality(Violated) = 1) =>
          \A r \in Rules : ContainsPhrase(loaded[1].err, Keyword(r)) <=> r \in Violated

C15_Witness ==
    /\ Loaded
    /\ Parsed # <<>>
    /\ Violated = {"order"}
    /\ environ.REQUEST_TIMEOUT = <<"10s">>
    /\ environ.RESPONSE_TIMEOUT = <<"15s">>
    /\ ContainsPhrase(loaded[1].err,
           <<"response", "timeout", "must", "be", "less", "than", "request", "timeout">>)

\* C16: the two front ends are the same machine: on the same request, list
\* and handler outcome Wrap and WrapV2 compose the chain alike, their
\* middlewares decide alike and their responses are equal, and every stage
\* one front end offers is offered by the other.
C16_FrontEndsIdentical ==
    /\ Wrap(middlewares) = WrapV2(middlewares)
    /\ ValidationMiddleware(request) = ValidationMiddlewareV2(request)
    /\ (Returned /\ ChainErr # NilError)
          => WrapErrorResponse(responseBuilder, ChainErr)
                = WrapV2ErrorResponse(responseBuilder, ChainErr)
    /\ \A k \in 1..NumMws :
          (middlewares[k] # "custom" /\ Has("enter", k))
              => middlewares[k] \in HandlerMiddlewares \cap HandlerMiddlewaresV2

\* a request to the users endpoint for one user that the store does not hold
UsersEndpoint == handlerFunc = "users" /\ middlewares = UsersMiddlewares
RequestedID == Lookup(request.PathParameters, "id")
UnknownUserRequested ==
    /\ UsersEndpoint
    /\ request.HTTPMethod = "GET"
    /\ RequestedID # ""
    /\ \A i \in 1..Len(MockUsers) : MockUsers[i] # RequestedID

\* C18 as stated: a request to the users endpoint for a single user whose ID
\* is not in the store is answered with status 404 and a message that contains
\* "not found" and the requested ID.
C18_UnknownUserGives404WithID ==
    (Returned /\ UnknownUserRequested) =>
        /\ Status = 404
        /\ ContainsPhrase(BodyMessage, <<"not", "found">>)
        /\ Contains(BodyMessage, RequestedID)

\* C18 amended: such a request is answered with status 404 and the message
\* "user not found", which does not contain the ID (the NotFoundError carries
\* resource "user" and the requested ID in its own fields), unless the timeout
\* middleware returns its TimeoutError first.
C18_UnknownUserGives404 ==
    (Returned /\ UnknownUserRequested) =>
        IF TookTimeoutBranch
        THEN ChainErr = TimeoutMiddlewareError(config)
        ELSE /\ Status = 404
             /\ BodyMessage = <<"user", "not", "found">>
             /\ ~Contains(BodyMessage, RequestedID)
             /\ ChainErr.type = "NotFoundError"
             /\ ChainErr.Resource = "user"
             /\ ChainErr.ID = RequestedID

C18_Witness ==
    /\ Returned
    /\ UnknownUserRequested
    /\ RequestedID = "999"
    /\ ~TookTimeoutBranch
    /\ Status = 404

\* C19: on the users endpoint every request with a method other than GET, with
\* or without body or Content-Type, is answered with status 400 and a message
\* containing "only GET method is allowed"; neither the generic validation
\* middleware nor the business handler runs for it.
C19_OnlyGetOnUsers ==
    (UsersEndpoint /\ request.HTTPMethod # "GET") =>
        /\ \A k \in 2..NumMws : ~Has("enter", k)
        /\ ~Has("start", 0)
        /\ 1 \notin delegated
        /\ Returned =>
              /\ Status = 400
              /\ ContainsPhrase(BodyMessage, <<"only", "GET", "method", "is", "allowed">>)

C19_Witness ==
    /\ Returned
    /\ UsersEndpoint
    /\ request.HTTPMethod = "PATCH"
    /\ request.Body # <<>>
    /\ request.Headers = <<>>
    /\ Status = 400
    /\ events = <<Event("enter", 1), Event("exit", 1)>>

\* C20: for every call of WithTimer with a supplied function, the subsegment
\* it opened is closed exactly once by the time WithTimer finishes, whether
\* the function succeeded or failed, the close comes after the duration was
\* recorded, and WithTimer returns exactly what the function returned.
C20_TimerClosesOnceAndReturnsErr ==
    /\ \A i \in 1..Len(segs) : segs[i].closes <= 1
    /\ \A i \in 1..Len(finished) :
          LET c == finished[i] IN
          c.fn = "supplied" =>
              /\ c.seg # 0 => (c.closes = 1 /\ segs[c.seg].recordedAtClose)
              /\ c.out # "panic" => c.ret = <<c.out>>

C20_Witness ==
    /\ Len(finished) = 2
    /\ finished[1].seg # 0 /\ finished[1].out = "no rows" /\ finished[1].ret = <<"no rows">>
    /\ finished[2].seg # 0 /\ finished[2].out = "nil" /\ finished[2].ret = <<"nil">>
    /\ \A i \in 1..2 : segs[i].closes = 1 /\ "duration_ms" \in segs[i].annotations
    /\ finished[1].fn = "supplied" /\ finished[2].fn = "supplied"

\* the status Wrap gives a result of the wrapped chain
StatusFor(res) ==
    IF res.err # NilError THEN WrapErrorResponse(NewResponseBuilder, res.err).StatusCode ELSE 200

\* the results invocation i itself can obtain: its handler's, or its timeout
OwnResults(i) ==
    ConcOutcomes(invocation[i].request)
        \cup {[data |-> <<>>, err |-> TimeoutMiddlewareError(DefaultConfig)]}

\* C17: with invocations of the same wrapped handler interleaved in any way,
\* each finished invocation's response carries its own request ID (X-Request-ID
\* header and requestId body field, both absent when it has none), its own
\* path and the status of a result that is its own, its segment's annotations
\* carry its own request ID, method, path and status, and every log entry
\* names the request ID and path of one and the same invocation.
C17_InvocationsAreIsolated ==
    /\ \A i \in Invocations :
          invocation[i].response # <<>> =>
              LET r   == invocation[i].response[1]
                  res == invocation[i].ret[1]
                  ann == segments[i].ann
              IN  /\ IF OwnID(i) # "" THEN /\ "X-Request-ID" \in DOMAIN r.Headers
                                           /\ r.Headers["X-Request-ID"] = OwnID(i)
                                      ELSE "X-Request-ID" \notin DOMAIN r.Headers
                  /\ r.Body # <<>>
                  /\ IF OwnID(i) # "" THEN /\ "requestId" \in DOMAIN r.Body[1]
                                           /\ r.Body[1].requestId = <<OwnID(i)>>
                                      ELSE "requestId" \notin DOMAIN r.Body[1]
                  /\ "path" \in DOMAIN r.Body[1] => r.Body[1].path = <<invocation[i].request.Path>>
                  /\ res \in OwnResults(i)
                  /\ r.StatusCode = StatusFor(res)
                  /\ ann["request_id"] = OwnID(i)
                  /\ ann["http_path"] = invocation[i].request.Path
                  /\ ann["http_status"] = r.StatusCode
                  /\ ("aws_request_id" \in DOMAIN ann) => ann["aws_request_id"] = OwnID(i)
    /\ \A k \in 1..Len(sink) :
          \E i \in Invocations :
              /\ sink[k].request_id = OwnID(i)
              /\ sink[k].path = invocation[i].request.Path
              /\ sink[k].status # 0 =>
                    (invocation[i].response # <<>>
                        /\ invocation[i].response[1].StatusCode = sink[k].status)

C17_Witness ==
    /\ \A i \in {1, 2} : invocation[i].pc = "done" /\ OwnID(i) = RequestIDOf(i)
    /\ invocation[1].request.Path # invocation[2].request.Path
    /\ invocation[1].response[1].StatusCode = 404
    /\ invocation[2].response[1].StatusCode = 200
    /\ Len(sink) >= 2
    /\ sink[1].request_id = RequestIDOf(2)
    /\ sink[2].request_id = RequestIDOf(1)
    /\ invocation[1].response[1].Headers["X-Request-ID"] = RequestIDOf(1)
    /\ invocation[2].response[1].Body[1].requestId = <<RequestIDOf(2)>>

\* C21: a WithTimer call given no function finishes by returning an error
\* whose text is "operation cannot be nil", with tracing on or off; it does
\* not panic.
C21_NilOperationReturnsError ==
    \A i \in 1..Len(finished) :
        finished[i].fn = "nil" => finished[i].ret = <<"operation cannot be nil">>

\* C22: with tracing disabled by configuration, whatever operations are
\* called and in whatever order, each returns the context it was given and a
\* nil handle, no segment is created, annotated, given metadata or an error,
\* or closed; and Close on a nil handle, with or without an error, changes
\* nothing.
C22_DisabledTracerIsNoOp ==
    /\ ~apiEnabled =>
          /\ handles = {0}
          /\ Len(xsegs) <= 1
          /\ \A i \in 1..Len(xsegs) : xsegs[i] = NewSegment("facade", 0, {})
          /\ lastCall # <<>> =>
                /\ lastCall[1].out = lastCall[1].in
                /\ lastCall[1].handle = 0
                /\ ~lastCall[1].changed
    /\ (lastCall # <<>> /\ lastCall[1].op = "Close" /\ lastCall[1].handle = 0) =>
          ~lastCall[1].changed

C22_Witness ==
    /\ ~apiEnabled
    /\ ncalls = MaxTracerCalls
    /\ <<1>> \in held
    /\ lastCall[1].op = "AddError"
    /\ lastCall[1].in = <<1>>
    /\ xsegs[1].errors = <<>>

CompletionLines == {k \in 1..Len(logs) : logs[k].msg = "HTTP request completed"}

Gave(fn) == fn \in DOMAIN verdict

\* the statuses of the taxonomy table, by variant
TaxonomyStatus ==
    [ValidationError |-> 400, NotFoundError |-> 404, ConflictError |-> 409,
     UnauthorizedError |-> 401, ForbiddenError |-> 403, TimeoutError |-> 408,
     InternalError |-> 500, BusinessLogicError |-> 500]

\* C24: GetStatusCode gives a status for every error and for nil: 200 for
\* nil, the status of the taxonomy table for a typed error, its own
\* statusCode for an ExternalServiceError, 500 for an untyped error.
C24_StatusOfTaxonomy ==
    Gave("GetStatusCode") =>
        verdict["GetStatusCode"] =
            (CASE errIn.type = "nil" -> 200
               [] errIn.type = "untyped" -> 500
               [] errIn.type = "ExternalServiceError" -> errIn.StatusCode
               [] OTHER -> TaxonomyStatus[errIn.type])

C24_Witness ==
    /\ Gave("GetStatusCode")
    /\ errIn.type = "ExternalServiceError"
    /\ errIn.StatusCode = 429
    /\ verdict["GetStatusCode"] = 429

\* C25: IsRetryableError is true exactly for an ExternalServiceError whose
\* retryable flag is set and for a TimeoutError of any duration, false for
\* everything else (nil and untyped errors included), and the call leaves the
\* error as it was.
C25_RetryableExactly ==
    /\ [](Gave("IsRetryableError") =>
            (verdict["IsRetryableError"] <=>
                \/ errIn.type = "ExternalServiceError" /\ errIn.Retryable
                \/ errIn.type = "TimeoutError"))
    /\ [][errIn' = errIn]_vars

C25_Witness ==
    /\ Gave("IsRetryableError")
    /\ errIn.type = "TimeoutError"
    /\ errIn.Timeout = 0
    /\ verdict["IsRetryableError"] = TRUE

\* a typed error that is only the cause wrapped in an InternalError or in an
\* untyped error
InnerOnly ==
    /\ errIn.type \in {"InternalError", "untyped"}
    /\ errIn.Err # <<>>
    /\ errIn.Err[1].type \in Variants \ {errIn.type}

\* C29: for an error whose typed variant is reachable only as the wrapped
\* cause of an InternalError or of an untyped error, the switch of Wrap gives
\* status 500 and the predicate of the inner variant gives false.
C29_OutermostTypeDecides ==
    InnerOnly =>
        /\ Gave("Wrap") => verdict["Wrap"] = 500
        /\ Gave(errIn.Err[1].type) => verdict[errIn.Err[1].type] = FALSE

C29_Witness ==
    /\ InnerOnly
    /\ errIn.type = "untyped"
    /\ errIn.Err[1].type = "NotFoundError"
    /\ Gave("Wrap") /\ verdict["Wrap"] = 500
    /\ Gave("NotFoundError") /\ verdict["NotFoundError"] = FALSE

\* response i as a reader of it sees it now
Seen(i) == [produced[i].resp EXCEPT !.Headers = heap[produced[i].resp.Headers]]

\* C26: whatever is called on the builder after a terminal call, every
\* response produced so far still has the status, headers and body it was
\* returned with; every response has a header map of its own, which is not
\* the builder's; and a terminal call leaves the builder's request ID, path
\* and headers as they were.
C26_ResponsesAreImmutable ==
    \A i \in 1..Len(produced) :
        /\ Seen(i) = produced[i].asReturned
        /\ produced[i].resp.Headers # builder.headers
        /\ \A j \in 1..Len(produced) : j # i => produced[j].resp.Headers # produced[i].resp.Headers
        /\ produced[i].builderAfter = produced[i].builderBefore

C26_Witness ==
    /\ Len(produced) = 2
    /\ nops = 3
    /\ "X-Custom" \notin DOMAIN Seen(1).Headers
    /\ "X-Custom" \in DOMAIN Seen(2).Headers
    /\ Seen(1).StatusCode = 200
    /\ Seen(2).StatusCode = 404

\* C27: the timeout middleware returns its TimeoutError only when the
\* response timeout has elapsed since it was entered and the handler has not
\* delivered a result; never because the caller's context was done earlier.
C27_TimeoutOnlyWhenElapsed ==
    TookTimeoutBranch =>
        /\ timeoutCtx.expired
        /\ ~selectSaw[1].result

TimedOut(i) ==
    /\ invocation[i].ret # <<>>
    /\ invocation[i].ret[1].err.type = "TimeoutError"

\* C28: once the timeout middleware of an invocation has returned its
\* TimeoutError, the abandoned task finds room in its channel when its handler
\* returns (the send does not block), the result it sends stays there,
\* received by nobody, and the invocation answers with the timeout; no other
\* invocation uses that channel.
C28_LateResultIsDropped ==
    \A i \in Invocations :
        TimedOut(i) =>
            /\ invocation[i].gpc = "run" => Len(channels[ChannelCell(i)]) < 1
            /\ invocation[i].gpc = "done" =>
                  /\ Len(channels[ChannelCell(i)]) = 1
                  /\ channels[ChannelCell(i)][1] \in ConcOutcomes(invocation[i].request)
            /\ invocation[i].response # <<>> =>
                  invocation[i].response[1].StatusCode
                      = StatusFor([data |-> <<>>, err |-> TimeoutMiddlewareError(DefaultConfig)])
            /\ \A j \in Invocations \ {i} :
                  /\ ChannelCell(j) # ChannelCell(i)
                  /\ invocation[j].ret # <<>> => invocation[j].ret[1] \in OwnResults(j)

C28_Witness ==
    /\ TimedOut(1)
    /\ invocation[1].pc = "done"
    /\ invocation[1].gpc = "done"
    /\ channels[1] # <<>>
    /\ channels[1][1].err = NilError
    /\ invocation[1].response[1].StatusCode = 500
    /\ invocation[2].pc = "done"
    /\ invocation[2].response[1].StatusCode = 404

\* C30 as stated: the segment the wrapper opened is closed when the wrapper
\* returns and not before, it is closed once, and nothing is logged or
\* annotated after the close.
C30_CloseIsLast ==
    /\ [](config.EnableTracing /\ pc["main"] # "none" => (Returned <=> segment = "closed"))
    /\ [][segment = "closed" =>
            (segment' = segment /\ logs' = logs /\ annotations' = annotations)]_vars

\* C30 amended: the segment is closed once, when the wrapper returns and not
\* before, after everything the wrapper and the chain it waited for have
\* logged and annotated; only the task a timeout middleware abandoned when it
\* returned its TimeoutError may log or annotate after the close.
C30_CloseIsLastUnlessAbandoned ==
    /\ [](config.EnableTracing /\ pc["main"] # "none" => (Returned <=> segment = "closed"))
    /\ [][segment = "closed" => segment' = segment]_vars
    /\ [][(segment = "closed" /\ ~TookTimeoutBranch) =>
            (logs' = logs /\ annotations' = annotations)]_vars

C30_Witness ==
    /\ Returned
    /\ segment = "closed"
    /\ ChainErr.type = "ValidationError"
    /\ ~TookTimeoutBranch
    /\ Len(logs) >= 3
    /\ "http_status" \in DOMAIN annotations

====
